---- MODULE Spec2Model ----
(***************************************************************************)
(* devmetrics: the incremental repository-sync engine.                     *)
(*                                                                         *)
(*   src/src/lib/db.ts            the SQLite store (tables, upserts, the   *)
(*                                watermark row, the sync_runs log)        *)
(*   src/src/lib/github.ts        token check, rate limit, throttle and    *)
(*                                the three fetchers                       *)
(*   src/src/app/config/page.tsx  lines 384-640: the streaming sync route  *)
(*                                (POST), the orchestrator                 *)
(*                                                                         *)
(* JavaScript runs one task at a time: the code between two suspensions    *)
(* (a network call, a timer) is one atomic step.  Every action below is    *)
(* one such step of one request handler: it starts where a promise         *)
(* settles and runs the code, through every call it makes, up to the next  *)
(* network call or timer, or to the end of the handler.                    *)
(*                                                                         *)
(* Time is in milliseconds.  Optional values (undefined, null) are         *)
(* sequences of length 0 or 1.                                             *)
(***************************************************************************)
EXTENDS Integers, Sequences, FiniteSets, TLC

\* ---------------------------------------------------------------- bounds
\* page size handed to the fetchers (the route passes 100; scaled down)
PerPage == 2
\* how many times the clock may advance on its own (latency, idle time)
MaxTicks == 2
\* how many sync requests a behaviour may hold, where it holds several
MaxRequests == 2
\* removal requests served in a behaviour
MaxRemovals == 2

\* ------------------------------------------------------ program constants
THROTTLE_MS == 100
PreflightMin == 50
LoopMin == 5
CheckEvery == 10
CommitProgressEvery == 20
PRProgressEvery == 10

\* one step of the clock, and the clock's value when the process starts
\* (Date.now() is far above THROTTLE_MS, so the first throttle never waits)
TickMs == THROTTLE_MS \div 2
StartTime == 19 * TickMs
\* the reset time the remote reports with its budget
ResetAt == StartTime + 36000 * THROTTLE_MS

None == << >>
Some(x) == << x >>
IsSome(o) == Len(o) = 1
Val(o) == o[1]

VARIABLES
    clock,            \* Date.now() / new Date()
    ticks,            \* how often the clock advanced on its own
    tokenOk,          \* process.env.GITHUB_TOKEN is set and no placeholder
    octokit,          \* github.ts: _octokit is created
    lastRequestTime,  \* github.ts: lastRequestTime
    remaining,        \* the remote's remaining request budget
    remote,           \* the remote's data: repo id -> commits, pulls
    db,               \* the store: one field per table
    run,              \* slot -> the locals of the request handler in it
    pending,          \* how many sync requests the client will still make
    lastOp            \* the last store operation applied directly

vars == << clock, ticks, tokenOk, octokit, lastRequestTime, remaining,
           remote, db, run, pending, lastOp >>

\* =================================================================
\* db.ts: the store
\* =================================================================

\* SQLite's CURRENT_TIMESTAMP has one-second resolution
CurrentTimestamp(now) == now \div 1000

\* new Date().toLocaleTimeString(): the time of day, without the date; it
\* starts again from zero when the day ends (a day is scaled to a second)
ToLocaleTimeString(now) == now % 1000

\* new Date().toISOString(): millisecond resolution, and parsing it back
\* (new Date(iso), the remote's reading of `since`) gives the same instant
ToISOString(now) == now

EmptyDb ==
    [ repos |-> << >>,
      commits |-> {},
      pull_requests |-> {},
      reviews |-> {},
      repo_sync_state |-> {},
      sync_runs |-> << >> ]

\* SELECT * FROM repos ORDER BY added_at DESC
getRepos(d) == d.repos

\* SELECT * FROM repos WHERE full_name = ?
getRepoByFullName(d, fullName) ==
    IF \E k \in 1..Len(d.repos) : d.repos[k] = fullName
    THEN Some(fullName)
    ELSE None

\* the columns of a row that the caller supplies
CommitPayload(row) ==
    [ sha |-> row.sha, repo_id |-> row.repo_id, additions |-> row.additions,
      committed_at |-> row.committed_at ]

PullPayload(row) ==
    [ id |-> row.id, repo_id |-> row.repo_id, number |-> row.number,
      additions |-> row.additions, merged_at |-> row.merged_at ]

\* INSERT INTO commits without the conflict clause taking effect: the
\* row with this sha stays beside the new one
insertCommitNoReplace(d, commit, now) ==
    [ d EXCEPT !.commits = @ \cup
        { [ sha |-> commit.sha, repo_id |-> commit.repo_id,
            additions |-> commit.additions,
            committed_at |-> commit.committed_at,
            fetched_at |-> CurrentTimestamp(now) ] } ]

\* INSERT OR REPLACE INTO commits: the row with this sha is replaced,
\* fetched_at is not supplied and takes its default
insertCommit(d, commit, now) ==
    [ d EXCEPT !.commits =
        { c \in @ : c.sha # commit.sha } \cup
        { [ sha |-> commit.sha, repo_id |-> commit.repo_id,
            additions |-> commit.additions,
            committed_at |-> commit.committed_at,
            fetched_at |-> CurrentTimestamp(now) ] } ]

\* INSERT OR REPLACE INTO pull_requests
insertPullRequest(d, pr, now) ==
    [ d EXCEPT !.pull_requests =
        { p \in @ : p.id # pr.id } \cup
        { [ id |-> pr.id, repo_id |-> pr.repo_id, number |-> pr.number,
            additions |-> pr.additions, merged_at |-> pr.merged_at,
            fetched_at |-> CurrentTimestamp(now) ] } ]

\* INSERT OR REPLACE INTO reviews
insertReview(d, review) ==
    [ d EXCEPT !.reviews =
        { v \in @ : v.id # review.id } \cup
        { [ id |-> review.id, pr_id |-> review.pr_id,
            state |-> review.state ] } ]

\* SELECT * FROM repo_sync_state WHERE repo_id = ?
getRepoSyncState(d, repoId) ==
    IF \E s \in d.repo_sync_state : s.repo_id = repoId
    THEN Some(CHOOSE s \in d.repo_sync_state : s.repo_id = repoId)
    ELSE None

\* COALESCE(?, column)
Coalesce(arg, column) == IF IsSome(arg) THEN arg ELSE column

\* the UPDATE or INSERT of repo_sync_state, writing last_commit_sync only
updateRepoSyncStateCommitOnly(d, repoId, commitSync, prSync, now) ==
    LET existing == getRepoSyncState(d, repoId)
        old == IF IsSome(existing) THEN Val(existing).last_pr_sync ELSE None
    IN  [ d EXCEPT !.repo_sync_state =
            { s \in @ : s.repo_id # repoId } \cup
            { [ repo_id |-> repoId, last_commit_sync |-> commitSync,
                last_pr_sync |-> old, updated_at |-> ToISOString(now) ] } ]

\* UPDATE ... SET x = COALESCE(?, x) of the existing row, else INSERT
updateRepoSyncState(d, repoId, commitSync, prSync, now) ==
    LET existing == getRepoSyncState(d, repoId)
    IN  IF IsSome(existing)
        THEN [ d EXCEPT !.repo_sync_state =
                { s \in @ : s.repo_id # repoId } \cup
                { [ repo_id |-> repoId,
                    last_commit_sync |->
                        Coalesce(commitSync, Val(existing).last_commit_sync),
                    last_pr_sync |->
                        Coalesce(prSync, Val(existing).last_pr_sync),
                    updated_at |-> ToISOString(now) ] } ]
        ELSE [ d EXCEPT !.repo_sync_state = @ \cup
                { [ repo_id |-> repoId, last_commit_sync |-> commitSync,
                    last_pr_sync |-> prSync,
                    updated_at |-> ToISOString(now) ] } ]

\* INSERT INTO sync_runs: the new row's id is its position in the log
startSyncRun(d, totalRepos, now) ==
    [ d EXCEPT !.sync_runs = Append(@,
        [ started_at |-> ToISOString(now), completed_at |-> None,
          status |-> "running", total_repos |-> totalRepos,
          completed_repos |-> 0, total_commits |-> 0, total_prs |-> 0,
          total_reviews |-> 0, error_message |-> None,
          finalized |-> 0 ]) ]

updateSyncRunProgress(d, runId, completedRepos, commits, prs, reviews) ==
    [ d EXCEPT !.sync_runs[runId] =
        [ @ EXCEPT !.completed_repos = completedRepos,
                   !.total_commits = commits,
                   !.total_prs = prs,
                   !.total_reviews = reviews ] ]

\* errorMessage || null: a missing message and the empty string are stored
\* as NULL
OrNull(errorMessage) ==
    IF IsSome(errorMessage) /\ Val(errorMessage) # "" THEN errorMessage
    ELSE None

\* UPDATE sync_runs SET completed_at, status, error_message WHERE id = ?
\* (`finalized` counts the applications of completeSyncRun to the row)
completeSyncRunStatusDropped(d, runId, status, errorMessage, now) ==
    [ d EXCEPT !.sync_runs[runId] =
        [ @ EXCEPT !.completed_at = Some(ToISOString(now)),
                   !.error_message = OrNull(errorMessage),
                   !.finalized = @ + 1 ] ]

completeSyncRun(d, runId, status, errorMessage, now) ==
    [ d EXCEPT !.sync_runs[runId] =
        [ @ EXCEPT !.completed_at = Some(ToISOString(now)),
                   !.status = status,
                   !.error_message = OrNull(errorMessage),
                   !.finalized = @ + 1 ] ]

\* SELECT * FROM sync_runs ORDER BY id DESC LIMIT 1
getLastSyncRun(d) ==
    IF Len(d.sync_runs) = 0 THEN None
    ELSE Some(d.sync_runs[Len(d.sync_runs)])

\* new Database(dbPath): the only pragma the code sets is journal_mode, so
\* foreign-key enforcement is the library's default.  better-sqlite3
\* bundles SQLite compiled with SQLITE_DEFAULT_FOREIGN_KEYS=1: the
\* REFERENCES clauses of the schema are enforced.
ForeignKeysOff == FALSE

ForeignKeys == TRUE

\* "FOREIGN KEY constraint failed"
SqliteError ==
    [ name |-> "SqliteError", message |-> "FOREIGN KEY constraint failed",
      resetAt |-> << >>, remaining |-> << >> ]

\* a row of repos with this id / of pull_requests with this id exists
RepoExists(d, repoId) == \E k \in 1..Len(d.repos) : d.repos[k] = repoId

PullExists(d, prId) == \E p \in d.pull_requests : p.id = prId

\* the statement inserts a child row whose parent row is missing
Violates(parentExists) == ForeignKeys /\ ~parentExists

\* removeRepo: DELETE FROM reviews, pull_requests, commits, repos, each
\* statement its own transaction.  The last one fails, and throws, while
\* a row of repo_sync_state (which no statement deletes) references the
\* repository.
removeRepo(d, id) ==
    LET pulls == { p.id : p \in { x \in d.pull_requests : x.repo_id = id } }
        d1 == [ d EXCEPT !.reviews = { v \in @ : v.pr_id \notin pulls } ]
        d2 == [ d1 EXCEPT !.pull_requests = { p \in @ : p.repo_id # id } ]
        d3 == [ d2 EXCEPT !.commits = { c \in @ : c.repo_id # id } ]
        referenced == \E s \in d3.repo_sync_state : s.repo_id = id
    IN  IF ForeignKeys /\ referenced
        THEN [ db |-> d3, thrown |-> << SqliteError >> ]
        ELSE [ db |-> [ d3 EXCEPT !.repos =
                            SelectSeq(@, LAMBDA x : x # id) ],
               thrown |-> << >> ]

\* =================================================================
\* the remote (GitHub REST API), as far as the fetchers depend on it
\* =================================================================

Min(a, b) == IF a < b THEN a ELSE b

\* page `page` (from 1) of `items`, `perPage` items a page
PageOf(items, page, perPage) ==
    SubSeq(items, (page - 1) * perPage + 1, Min(page * perPage, Len(items)))

\* repos.listCommits({since, per_page, page}): the remote filters by date
RemoteListCommits(repoId, since, page, perPage) ==
    LET all == remote[repoId].commits
        shown == IF IsSome(since)
                 THEN SelectSeq(all, LAMBDA c : c.date >= Val(since))
                 ELSE all
    IN  PageOf(shown, page, perPage)

\* pulls.list({state: "all", sort: "updated", direction: "desc", ...}):
\* no `since` is passed, the remote returns its whole list page by page
RemoteListPulls(repoId, page, perPage) ==
    PageOf(remote[repoId].pulls, page, perPage)

\* pulls.listReviews({pull_number})
RemoteListReviews(repoId, number) ==
    LET ps == remote[repoId].pulls
    IN  IF \E k \in 1..Len(ps) : ps[k].number = number
        THEN (ps[CHOOSE k \in 1..Len(ps) : ps[k].number = number]).reviews
        ELSE << >>

\* =================================================================
\* errors and events
\* =================================================================

GitHubConfigError ==
    [ name |-> "GitHubConfigError", message |-> "GitHub token not configured",
      resetAt |-> None, remaining |-> None ]

RateLimitError(resetAt, rem) ==
    [ name |-> "RateLimitError", message |-> "Rate limit nearly exhausted",
      resetAt |-> Some(resetAt), remaining |-> Some(rem) ]

\* the messages a failed remote call may carry: the text of the response,
\* which is empty when the response had no body
Messages == { "Not Found", "" }

\* any other failure of a remote call (network, an unexpected response)
RequestError(message) ==
    [ name |-> "RequestError", message |-> message, resetAt |-> None,
      remaining |-> None ]

\* controller.enqueue / controller.close on a stream that is no longer
\* readable (the consumer cancelled it) throws a TypeError
TypeError ==
    [ name |-> "TypeError", message |-> "Invalid state",
      resetAt |-> None, remaining |-> None ]

\* SyncEvent: type, and of `data` and `message` what tells events apart
Event(type) ==
    [ type |-> type, index |-> 0, errorType |-> None, resetAt |-> None,
      counts |-> << >> ]

ProgressEvent == Event("progress")

StartEvent(totalRepos) == [ Event("start") EXCEPT !.index = totalRepos ]

RepoStartEvent(index) == [ Event("repo_start") EXCEPT !.index = index ]

RepoDoneEvent(index, repoResult) ==
    [ Event("repo_done") EXCEPT !.index = index,
        !.counts = << repoResult.commits, repoResult.prs,
                      repoResult.reviews >> ]

CompleteEvent(totalCommits, totalPRs, totalReviews) ==
    [ Event("complete") EXCEPT
        !.counts = << totalCommits, totalPRs, totalReviews >> ]

\* one error event for every class of error
ErrorEventPlain(error) == Event("error")

\* the three error events of the route's catch block, by error class
ErrorEventFor(error) ==
    IF error.name = "GitHubConfigError"
    THEN [ Event("error") EXCEPT !.errorType = Some("config") ]
    ELSE IF error.name = "RateLimitError"
         THEN [ Event("error") EXCEPT !.resetAt = error.resetAt ]
         ELSE Event("error")

\* "Rate limit too low (...). Wait until <reset time> to sync."
PreflightErrorEvent(resetAt) ==
    [ Event("error") EXCEPT !.resetAt = Some(resetAt) ]

\* "Repository ... not found", "No repositories to sync. ..."
PlainErrorEvent == Event("error")

\* =================================================================
\* the world a step runs in: the store, the handler's locals (`me`) and
\* the two module-level variables of github.ts, at time `now`.  A raised
\* exception is
\* `me.thrown`; every statement is skipped while one is pending.
\* =================================================================

World(r, now) ==
    [ db |-> db, me |-> run[r], lastRequestTime |-> lastRequestTime,
      octokit |-> octokit, now |-> now ]

Thrown(w) == IsSome(w.me.thrown)

Throw(w, error) == IF Thrown(w) THEN w ELSE [ w EXCEPT !.me.thrown = Some(error) ]

\* the locals of a handler that has not started
IdleRun ==
    [ pc |-> "idle", site |-> "",
      reposToSync |-> << >>, i |-> 0,
      syncRunId |-> None, completedRepos |-> 0,
      totalCommits |-> 0, totalPRs |-> 0, totalReviews |-> 0,
      syncState |-> None, syncStartTime |-> 0,
      repoResult |-> [ commits |-> 0, prs |-> 0, reviews |-> 0 ],
      since |-> None, page |-> 1, data |-> << >>, idx |-> 0,
      items |-> << >>, foundOlder |-> FALSE, prIdx |-> 0,
      wakeAt |-> 0, thrown |-> None, caught |-> None,
      stream |-> << >>, closed |-> FALSE, cancelled |-> FALSE,
      fetches |-> 0 ]

\* const send = (event) => controller.enqueue(...)
send(w, event) ==
    IF Thrown(w) THEN w
    ELSE IF w.me.cancelled \/ w.me.closed THEN Throw(w, TypeError)
    ELSE [ w EXCEPT !.me.stream = Append(@, event) ]

\* controller.close()
close(w) ==
    IF Thrown(w) THEN w
    ELSE IF w.me.cancelled \/ w.me.closed THEN Throw(w, TypeError)
    ELSE [ w EXCEPT !.me.closed = TRUE ]

\* `return` from start(), or its end
Return(w) == IF Thrown(w) THEN w ELSE [ w EXCEPT !.me.pc = "done" ]

\* the route's repository being synced: reposToSync[i]
Repo(w) == w.me.reposToSync[w.me.i + 1]

\* ------------------------------------------------------- github.ts

\* validateToken(): the token is set and is not the placeholder
validateToken == tokenOk

\* getOctokit(): creates the client once, throws while no token is set
getOctokit(w) ==
    IF Thrown(w) \/ w.octokit THEN w
    ELSE IF validateToken THEN [ w EXCEPT !.octokit = TRUE ]
    ELSE Throw(w, GitHubConfigError)

\* suspend at a network call
Await(w, pc) == IF Thrown(w) THEN w ELSE [ w EXCEPT !.me.pc = pc ]

\* what follows `await throttle()` at each of its five call sites
AfterThrottle(w, site) ==
    IF Thrown(w) THEN w
    ELSE LET w1 == [ w EXCEPT !.me.site = site ]
         IN  CASE site = "c_page" -> Await(getOctokit(w1), "rateLimit")
               [] site = "p_page" -> Await(getOctokit(w1), "rateLimit")
               [] site = "c_item" ->
                    IF w.me.idx % CheckEvery = 0
                    THEN Await(getOctokit(w1), "rateLimit")
                    ELSE Await(w1, "getCommit")
               [] site = "p_item" ->
                    IF w.me.idx % CheckEvery = 0
                    THEN Await(getOctokit(w1), "rateLimit")
                    ELSE Await(w1, "getPull")
               [] OTHER -> Await(getOctokit(w1), "listReviews")

\* throttle(): waits until THROTTLE_MS after the last request time it
\* read, then takes the current time as the last request time
throttle(w, site) ==
    IF Thrown(w) THEN w
    ELSE LET timeSinceLastRequest == w.now - w.lastRequestTime
         IN  IF timeSinceLastRequest < THROTTLE_MS
             THEN [ w EXCEPT !.me.pc = "throttle", !.me.site = site,
                      !.me.wakeAt = w.now + (THROTTLE_MS - timeSinceLastRequest) ]
             ELSE AfterThrottle([ w EXCEPT !.lastRequestTime = w.now ], site)

\* fetchCommits(owner, repo, since, perPage, onProgress), from its call
\* to its first suspension
fetchCommits(w, since) ==
    IF Thrown(w) THEN w
    ELSE LET w1 == getOctokit([ w EXCEPT !.me.fetches = @ + 1 ])
             w2 == [ w1 EXCEPT !.me.since = since, !.me.items = << >>,
                               !.me.page = 1, !.me.data = << >>,
                               !.me.idx = 0 ]
         IN  IF Thrown(w1) THEN w1 ELSE throttle(w2, "c_page")

\* fetchPullRequests(owner, repo, since, "all", perPage, onProgress), from
\* its call to its first suspension
fetchPullRequests(w, since) ==
    IF Thrown(w) THEN w
    ELSE LET w1 == getOctokit([ w EXCEPT !.me.fetches = @ + 1 ])
             w2 == [ w1 EXCEPT !.me.since = since, !.me.items = << >>,
                               !.me.page = 1, !.me.data = << >>,
                               !.me.idx = 0, !.me.foundOlder = FALSE ]
         IN  IF Thrown(w1) THEN w1 ELSE throttle(w2, "p_page")

\* fetchReviews(owner, repo, prNumber), from its call to its suspension
fetchReviews(w) ==
    IF Thrown(w) THEN w
    ELSE throttle([ w EXCEPT !.me.fetches = @ + 1 ], "r")

\* a comparison that also skips a pull request updated at the watermark
IsOlderOrEqual(pr, since) == IsSome(since) /\ pr.updated_at <= Val(since)

\* new Date(pr.updated_at) < sinceDate
IsOlder(pr, since) == IsSome(since) /\ pr.updated_at < Val(since)

\* ------------------------------------------- the route: POST, start()

\* completedRepos > 0 ? "partial" : "error"
FailureStatusAlwaysError(completedRepos) == "error"

FailureStatus(completedRepos) ==
    IF completedRepos > 0 THEN "partial" ELSE "error"

\* the catch block of start(): finalize the run, send the error event
PostCatchNoFinalize(w) ==
    IF ~Thrown(w) THEN w
    ELSE LET error == Val(w.me.thrown)
             w0 == [ w EXCEPT !.me.thrown = None, !.me.caught = Some(error) ]
             w2 == close(send(w0, ErrorEventFor(error)))
         IN  [ w2 EXCEPT !.me.pc = "done" ]

\* a catch block inside the loop body: the error is noted and the
\* handler goes on from where it was
PostCatchResumes(w) ==
    IF ~Thrown(w) THEN w
    ELSE [ w EXCEPT !.me.thrown = None,
                    !.me.caught = Some(Val(w.me.thrown)) ]

\* a catch block that, for a failure after the commits were persisted,
\* writes the commit watermark of the failing repository
PostCatchAdvancing(w) ==
    IF ~Thrown(w) THEN w
    ELSE LET error == Val(w.me.thrown)
             w0 == [ w EXCEPT !.me.thrown = None, !.me.caught = Some(error) ]
             status == FailureStatus(w.me.completedRepos)
             d1 == IF w.me.site \in { "p_page", "p_item", "r" }
                   THEN updateRepoSyncState(w0.db, Repo(w),
                            Some(w.me.syncStartTime), None, w.now)
                   ELSE w0.db
             w1 == IF IsSome(w.me.syncRunId)
                   THEN [ w0 EXCEPT !.db = completeSyncRun(d1,
                            Val(w.me.syncRunId), status, Some(error.message),
                            w.now) ]
                   ELSE w0
             w2 == close(send(w1, ErrorEventFor(error)))
         IN  [ w2 EXCEPT !.me.pc = "done" ]

\* a catch block that reports the failure without finalizing the record
PostCatchUnrecorded(w) ==
    IF ~Thrown(w) THEN w
    ELSE LET error == Val(w.me.thrown)
             w0 == [ w EXCEPT !.me.thrown = None, !.me.caught = Some(error) ]
             w2 == close(send(w0, ErrorEventFor(error)))
         IN  [ w2 EXCEPT !.me.pc = "done" ]

PostCatch(w) ==
    IF ~Thrown(w) THEN w
    ELSE LET error == Val(w.me.thrown)
             w0 == [ w EXCEPT !.me.thrown = None, !.me.caught = Some(error) ]
             status == FailureStatus(w.me.completedRepos)
             w1 == IF IsSome(w.me.syncRunId)
                   THEN [ w0 EXCEPT !.db = completeSyncRun(w0.db,
                            Val(w.me.syncRunId), status, Some(error.message),
                            w.now) ]
                   ELSE w0
             w2 == close(send(w1, ErrorEventFor(error)))
         IN  [ w2 EXCEPT !.me.pc = "done" ]

\* syncState?.last_commit_sync || undefined
commitSinceNever(syncState) == None

commitSince(syncState) ==
    IF IsSome(syncState) THEN Val(syncState).last_commit_sync ELSE None

\* syncState?.last_pr_sync || undefined
prSince(syncState) ==
    IF IsSome(syncState) THEN Val(syncState).last_pr_sync ELSE None

\* the loop head: the next repository's cycle up to its first suspension,
\* or, after the last repository, the successful end of the run
PostRepo(w) ==
    IF Thrown(w) THEN w
    ELSE IF w.me.i < Len(w.me.reposToSync)
    THEN LET syncState == getRepoSyncState(w.db, Repo(w))
             w1 == [ w EXCEPT !.me.syncState = syncState,
                        !.me.syncStartTime = ToISOString(w.now),
                        !.me.repoResult =
                            [ commits |-> 0, prs |-> 0, reviews |-> 0 ] ]
             w2 == send(send(w1, RepoStartEvent(w.me.i + 1)), ProgressEvent)
         IN  fetchCommits(w2, commitSince(syncState))
    ELSE LET w1 == [ w EXCEPT !.db = completeSyncRun(w.db,
                        Val(w.me.syncRunId), "complete", None, w.now) ]
             w2 == send(w1, CompleteEvent(w.me.totalCommits, w.me.totalPRs,
                                          w.me.totalReviews))
         IN  Return(close(w2))

\* the end of a repository's cycle: watermarks, totals, repo_done
PostRepoDone(w) ==
    IF Thrown(w) THEN w
    ELSE LET w1 == send(w, ProgressEvent)
             me == w1.me
             done == me.completedRepos + 1
             tc == me.totalCommits + me.repoResult.commits
             tp == me.totalPRs + me.repoResult.prs
             tr == me.totalReviews + me.repoResult.reviews
             d1 == updateRepoSyncState(w1.db, Repo(w1),
                        Some(me.syncStartTime), Some(me.syncStartTime), w.now)
             d2 == updateSyncRunProgress(d1, Val(me.syncRunId), done,
                        tc, tp, tr)
             w2 == [ w1 EXCEPT !.db = d2, !.me.totalCommits = tc,
                        !.me.totalPRs = tp, !.me.totalReviews = tr,
                        !.me.completedRepos = done ]
             w3 == send(w2, RepoDoneEvent(me.i + 1, me.repoResult))
         IN  IF Thrown(w1) THEN w1
             ELSE IF ~IsSome(getRepoSyncState(w1.db, Repo(w1)))
                     /\ Violates(RepoExists(w1.db, Repo(w1)))
             THEN Throw(w1, SqliteError)
             ELSE IF Thrown(w3) THEN w3
             ELSE PostRepo([ w3 EXCEPT !.me.i = @ + 1 ])

\* the loop over prs split in two: every pull request is persisted first,
\* the reviews are fetched afterwards
PostPullsBatched(w) ==
    IF Thrown(w) THEN w
    ELSE IF w.me.prIdx < Len(w.me.items)
    THEN LET rows == { [ id |-> w.me.items[k].id, repo_id |-> Repo(w),
                         number |-> w.me.items[k].number,
                         additions |-> w.me.items[k].additions,
                         merged_at |-> w.me.items[k].merged_at,
                         fetched_at |-> CurrentTimestamp(w.now) ] :
                       k \in 1..Len(w.me.items) }
             w1 == [ w EXCEPT !.db.pull_requests =
                        { p \in @ : \A q \in rows : q.id # p.id } \cup rows,
                        !.me.repoResult.prs = @ + 1 ]
         IN  fetchReviews(w1)
    ELSE PostRepoDone(w)

\* for (const pr of prs): persist the pull request, then fetch its
\* reviews; after the last one the cycle ends
PostPulls(w) ==
    IF Thrown(w) THEN w
    ELSE IF w.me.prIdx < Len(w.me.items)
    THEN LET pr == w.me.items[w.me.prIdx + 1]
             row == [ id |-> pr.id, repo_id |-> Repo(w),
                      number |-> pr.number, additions |-> pr.additions,
                      merged_at |-> pr.merged_at ]
             w1 == [ w EXCEPT !.db = insertPullRequest(w.db, row, w.now),
                        !.me.repoResult.prs = @ + 1 ]
         IN  IF Violates(RepoExists(w.db, Repo(w)))
             THEN Throw(w, SqliteError)
             ELSE fetchReviews(w1)
    ELSE PostRepoDone(w)

\* the reviews of items[prIdx] arrived: persist each, go to the next pull
RECURSIVE InsertReviews(_, _, _)
InsertReviews(d, reviews, prId) ==
    IF Len(reviews) = 0 THEN d
    ELSE InsertReviews(
            insertReview(d, [ id |-> Head(reviews).id, pr_id |-> prId,
                              state |-> Head(reviews).state ]),
            Tail(reviews), prId)

PostReviews(w, reviews) ==
    IF Thrown(w) THEN w
    ELSE LET pr == w.me.items[w.me.prIdx + 1]
             w1 == [ w EXCEPT !.db = InsertReviews(w.db, reviews, pr.id),
                        !.me.repoResult.reviews = @ + Len(reviews),
                        !.me.prIdx = @ + 1 ]
         IN  IF Len(reviews) > 0 /\ Violates(PullExists(w.db, pr.id))
             THEN Throw(w, SqliteError)
             ELSE PostPulls(w1)

\* for (const commit of commits) insertCommit(...), leaving after the
\* first commit
InsertCommitsFirstOnly(d, commits, repoId, now) ==
    IF Len(commits) = 0 THEN d
    ELSE insertCommit(d, [ sha |-> Head(commits).sha, repo_id |-> repoId,
                           additions |-> Head(commits).additions,
                           committed_at |-> Head(commits).committed_at ],
                      now)

\* fetchCommits returned: persist each commit, then call the pull fetcher
RECURSIVE InsertCommits(_, _, _, _)
InsertCommits(d, commits, repoId, now) ==
    IF Len(commits) = 0 THEN d
    ELSE InsertCommits(
            insertCommit(d, [ sha |-> Head(commits).sha, repo_id |-> repoId,
                              additions |-> Head(commits).additions,
                              committed_at |-> Head(commits).committed_at ],
                         now),
            Tail(commits), repoId, now)

\* the loop body with the commit watermark written as soon as the commits
\* are persisted
PostCommitsAdvancing(w) ==
    IF Thrown(w) THEN w
    ELSE LET commits == w.me.items
             d1 == InsertCommits(w.db, commits, Repo(w), w.now)
             w1 == [ w EXCEPT !.db = updateRepoSyncState(d1, Repo(w),
                                        Some(w.me.syncStartTime), None, w.now),
                        !.me.repoResult.commits = @ + Len(commits) ]
             w2 == send(send(w1, ProgressEvent), ProgressEvent)
         IN  IF Len(commits) > 0 /\ Violates(RepoExists(w.db, Repo(w)))
             THEN Throw(w, SqliteError)
             ELSE fetchPullRequests(w2, prSince(w.me.syncState))

PostCommits(w) ==
    IF Thrown(w) THEN w
    ELSE LET commits == w.me.items
             w1 == [ w EXCEPT !.db = InsertCommits(w.db, commits, Repo(w), w.now),
                        !.me.repoResult.commits = @ + Len(commits) ]
             w2 == send(send(w1, ProgressEvent), ProgressEvent)
         IN  IF Len(commits) > 0 /\ Violates(RepoExists(w.db, Repo(w)))
             THEN Throw(w, SqliteError)
             ELSE fetchPullRequests(w2, prSince(w.me.syncState))

\* startSyncRun, the start event, then the first repository
PostBegin(w) ==
    IF Thrown(w) THEN w
    ELSE LET d1 == startSyncRun(w.db, Len(w.me.reposToSync), w.now)
             w1 == [ w EXCEPT !.db = d1,
                        !.me.syncRunId = Some(Len(d1.sync_runs)),
                        !.me.totalCommits = 0, !.me.totalPRs = 0,
                        !.me.totalReviews = 0, !.me.i = 0 ]
         IN  PostRepo(send(w1, StartEvent(Len(w.me.reposToSync))))

\* no try around the pre-flight query: its failure leaves start()'s try
PreflightCatchNone(w) == w

\* the catch of the try around the pre-flight query: a progress event
PreflightCatch(w) ==
    IF Thrown(w)
    THEN send([ w EXCEPT !.me.thrown = None ], ProgressEvent)
    ELSE w

\* rateLimit.remaining < 50
TooLowInclusive(rem) == rem <= PreflightMin

TooLow(rem) == rem < PreflightMin

\* the pre-flight abort: the error event with the reset time, close, return
PreflightAbortNoReturn(w, resetAt) == send(w, PreflightErrorEvent(resetAt))

PreflightAbort(w, resetAt) ==
    Return(close(send(w, PreflightErrorEvent(resetAt))))

\* the pre-flight query answered `rem` remaining requests
PostPreflight(w, rem) ==
    LET w1 == send(w, ProgressEvent)
        w2 == IF TooLow(rem) THEN PreflightAbort(w1, ResetAt) ELSE w1
        w3 == PreflightCatch(w2)
    IN  IF w3.me.pc = "done" THEN w3 ELSE PostBegin(w3)

\* start() without the two early returns: an empty target list goes on to
\* the pre-flight query
PostStartUnchecked(w, repoFullName, repoIds) ==
    LET byName == getRepoByFullName(w.db, Val(repoFullName))
        all == getRepos(w.db)
        reposToSync ==
            IF IsSome(repoFullName) THEN byName
            ELSE IF IsSome(repoIds) /\ Val(repoIds) # {}
                 THEN SelectSeq(all, LAMBDA id : id \in Val(repoIds))
                 ELSE all
        w1 == [ w EXCEPT !.me.reposToSync = reposToSync ]
        w2 == getOctokit(w1)
    IN  IF Thrown(w2)
        THEN PostBegin(PreflightCatch(w2))
        ELSE Await(w2, "preflight")

\* the body of start() up to its first suspension: resolve the targets,
\* send the pre-flight query
PostStart(w, repoFullName, repoIds) ==
    LET byName == getRepoByFullName(w.db, Val(repoFullName))
        all == getRepos(w.db)
        reposToSync ==
            IF IsSome(repoFullName) THEN byName
            ELSE IF IsSome(repoIds) /\ Val(repoIds) # {}
                 THEN SelectSeq(all, LAMBDA id : id \in Val(repoIds))
                 ELSE all
        w1 == [ w EXCEPT !.me.reposToSync = reposToSync ]
        w2 == getOctokit(w1)
    IN  IF Len(reposToSync) = 0
        THEN Return(close(send(w, PlainErrorEvent)))
        ELSE IF Thrown(w2)
             THEN PostBegin(PreflightCatch(w2))
             ELSE Await(w2, "preflight")

\* the list response of fetchCommits
PostListCommits(w, data) ==
    IF Len(data) = 0
    THEN PostCommits(w)
    ELSE throttle([ w EXCEPT !.me.data = data, !.me.idx = 0 ], "c_item")

\* the detail response of fetchCommits, with the loop left after the
\* first page whatever its length
PostGetCommitOnePage(w, additions) ==
    LET commit == w.me.data[w.me.idx + 1]
        commits == Append(w.me.items,
                     [ sha |-> commit.sha, additions |-> additions,
                       committed_at |-> commit.date ])
        w1 == [ w EXCEPT !.me.items = commits ]
        w2 == IF Len(commits) % CommitProgressEvery = 0
              THEN send(w1, ProgressEvent)
              ELSE w1
        w3 == [ w2 EXCEPT !.me.idx = @ + 1 ]
    IN  IF Thrown(w2) THEN w2
        ELSE IF w3.me.idx < Len(w.me.data) THEN throttle(w3, "c_item")
        ELSE PostCommits(w3)

\* the detail response of fetchCommits: push, report, next item or page
PostGetCommit(w, additions) ==
    LET commit == w.me.data[w.me.idx + 1]
        commits == Append(w.me.items,
                     [ sha |-> commit.sha, additions |-> additions,
                       committed_at |-> commit.date ])
        w1 == [ w EXCEPT !.me.items = commits ]
        w2 == IF Len(commits) % CommitProgressEvery = 0
              THEN send(w1, ProgressEvent)
              ELSE w1
        w3 == [ w2 EXCEPT !.me.idx = @ + 1 ]
    IN  IF Thrown(w2) THEN w2
        ELSE IF w3.me.idx < Len(w.me.data) THEN throttle(w3, "c_item")
        ELSE IF Len(w.me.data) < PerPage THEN PostCommits(w3)
        ELSE throttle([ w3 EXCEPT !.me.page = @ + 1 ], "c_page")

\* if (foundOlder) break; if (response.data.length < perPage) break;
StopPagingShortOnly(foundOlder, data) == Len(data) < PerPage

StopPaging(foundOlder, data) == foundOlder \/ Len(data) < PerPage

\* the item loop of fetchPullRequests from data[idx]: skip the pulls
\* older than `since`, stop at the first one to fetch; at the end of the
\* page return, or go to the next page
fetchPullRequestsScan(w) ==
    LET data == w.me.data
        kept == { k \in (w.me.idx + 1)..Len(data) :
                    ~IsOlder(data[k], w.me.since) }
        stop == IF kept = {} THEN Len(data) + 1
                ELSE CHOOSE k \in kept : \A j \in kept : k <= j
        foundOlder == w.me.foundOlder \/
            \E k \in (w.me.idx + 1)..(stop - 1) : IsOlder(data[k], w.me.since)
        w1 == [ w EXCEPT !.me.foundOlder = foundOlder, !.me.idx = stop - 1 ]
    IN  IF Thrown(w) THEN w
        ELSE IF stop <= Len(data) THEN throttle(w1, "p_item")
        ELSE IF StopPaging(foundOlder, data)
             THEN PostPulls([ w1 EXCEPT !.me.prIdx = 0 ])
             ELSE throttle([ w1 EXCEPT !.me.page = @ + 1 ], "p_page")

\* the list response of fetchPullRequests
PostListPulls(w, data) ==
    IF Len(data) = 0
    THEN PostPulls([ w EXCEPT !.me.prIdx = 0 ])
    ELSE fetchPullRequestsScan(
            [ w EXCEPT !.me.data = data, !.me.idx = 0,
                       !.me.foundOlder = FALSE ])

\* the detail response of fetchPullRequests
PostGetPull(w, additions) ==
    LET pr == w.me.data[w.me.idx + 1]
        prs == Append(w.me.items,
                  [ id |-> pr.id, number |-> pr.number,
                    additions |-> additions, merged_at |-> pr.merged_at,
                    updated_at |-> pr.updated_at ])
        w1 == [ w EXCEPT !.me.items = prs ]
        w2 == IF Len(prs) % PRProgressEvery = 0
              THEN send(w1, ProgressEvent)
              ELSE w1
    IN  fetchPullRequestsScan([ w2 EXCEPT !.me.idx = @ + 1 ])

\* =================================================================
\* actions: one per suspension point of the handler
\* =================================================================

Slots == DOMAIN run

\* at the end of the handler the frames of the fetchers and of the loop
\* body are gone; what the handler leaves is its stream and its outcome
\* (and, for the properties, where a caught error found the fetcher: its
\* call site and the items it had collected)
Ended(me) ==
    [ IdleRun EXCEPT !.pc = "done", !.reposToSync = me.reposToSync,
        !.site = IF IsSome(me.caught) THEN me.site ELSE "",
        !.items = IF IsSome(me.caught) THEN me.items ELSE << >>,
        !.prIdx = IF IsSome(me.caught) THEN me.prIdx ELSE 0,
        !.i = me.i, !.syncRunId = me.syncRunId,
        !.completedRepos = me.completedRepos,
        !.totalCommits = me.totalCommits, !.totalPRs = me.totalPRs,
        !.totalReviews = me.totalReviews, !.thrown = me.thrown,
        !.caught = me.caught, !.stream = me.stream, !.closed = me.closed,
        !.cancelled = me.cancelled, !.fetches = me.fetches ]

\* the step's result: a pending exception runs the catch block
Commit(r, w0) ==
    LET w == PostCatch(w0)
    IN  /\ db' = w.db
        /\ run' = [ run EXCEPT ![r] = IF w.me.pc = "done" THEN Ended(w.me)
                                      ELSE w.me ]
        /\ lastRequestTime' = w.lastRequestTime
        /\ octokit' = w.octokit

\* the remote calls that count against the budget
Counted == { "listCommits", "getCommit", "listPulls", "getPull", "listReviews" }

Awaiting == Counted \cup { "preflight", "rateLimit" }

\* the request bodies: a tracked or unknown full name, a selection of
\* ids (tracked, unknown or empty), or nothing
Bodies ==
    { [ repoFullName |-> n, repoIds |-> None ] : n \in { None, Some(1), Some(9) } }
    \cup
    { [ repoFullName |-> None, repoIds |-> Some(ids) ] : ids \in { {}, {2}, {9} } }

\* POST /api/sync/stream with `body`
StartSync(r, body) ==
    /\ run[r].pc \in { "idle", "done" }
    /\ \A q \in Slots : q < r => run[q].pc \notin { "idle", "done" }
    /\ pending > 0
    /\ pending' = pending - 1
    /\ Commit(r, PostStart([ World(r, clock) EXCEPT !.me = IdleRun ],
                            body.repoFullName, body.repoIds))
    /\ UNCHANGED << clock, ticks, tokenOk, remaining, remote, lastOp >>

\* the pre-flight rateLimit.get() answered
PreflightResp(r) ==
    /\ run[r].pc = "preflight"
    /\ Commit(r, PostPreflight(World(r, clock), remaining))
    /\ UNCHANGED << clock, ticks, tokenOk, remaining, remote, pending, lastOp >>

\* the timer of throttle() fired: time has reached wakeAt
ThrottleWake(r) ==
    /\ run[r].pc = "throttle"
    /\ clock' = IF clock < run[r].wakeAt THEN run[r].wakeAt ELSE clock
    /\ LET w == World(r, clock')
       IN  Commit(r, AfterThrottle([ w EXCEPT !.lastRequestTime = clock' ],
                                   run[r].site))
    /\ UNCHANGED << ticks, tokenOk, remaining, remote, pending, lastOp >>

\* a check that lets every budget pass
BelowRequiredNever(rem, minRequired) == FALSE

\* rateLimit.remaining < minRequired
BelowRequired(rem, minRequired) == rem < minRequired

\* checkRateLimit(5): rateLimit.get() answered inside a fetcher
RateLimitResp(r) ==
    /\ run[r].pc = "rateLimit"
    /\ LET w == World(r, clock)
           next == CASE run[r].site = "c_page" -> "listCommits"
                     [] run[r].site = "c_item" -> "getCommit"
                     [] run[r].site = "p_page" -> "listPulls"
                     [] OTHER -> "getPull"
       IN  Commit(r, IF BelowRequired(remaining, LoopMin)
                     THEN Throw(w, RateLimitError(ResetAt, remaining))
                     ELSE Await(w, next))
    /\ UNCHANGED << clock, ticks, tokenOk, remaining, remote, pending, lastOp >>

ListCommitsResp(r) ==
    /\ run[r].pc = "listCommits"
    /\ remaining > 0
    /\ remaining' = remaining - 1
    /\ LET w == World(r, clock)
       IN  Commit(r, PostListCommits(w,
                RemoteListCommits(Repo(w), w.me.since, w.me.page, PerPage)))
    /\ UNCHANGED << clock, ticks, tokenOk, remote, pending, lastOp >>

GetCommitResp(r) ==
    /\ run[r].pc = "getCommit"
    /\ remaining > 0
    /\ remaining' = remaining - 1
    /\ LET w == World(r, clock)
       IN  Commit(r, PostGetCommit(w, w.me.data[w.me.idx + 1].additions))
    /\ UNCHANGED << clock, ticks, tokenOk, remote, pending, lastOp >>

ListPullsResp(r) ==
    /\ run[r].pc = "listPulls"
    /\ remaining > 0
    /\ remaining' = remaining - 1
    /\ LET w == World(r, clock)
       IN  Commit(r, PostListPulls(w,
                RemoteListPulls(Repo(w), w.me.page, PerPage)))
    /\ UNCHANGED << clock, ticks, tokenOk, remote, pending, lastOp >>

GetPullResp(r) ==
    /\ run[r].pc = "getPull"
    /\ remaining > 0
    /\ remaining' = remaining - 1
    /\ LET w == World(r, clock)
       IN  Commit(r, PostGetPull(w, w.me.data[w.me.idx + 1].additions))
    /\ UNCHANGED << clock, ticks, tokenOk, remote, pending, lastOp >>

ListReviewsResp(r) ==
    /\ run[r].pc = "listReviews"
    /\ remaining > 0
    /\ remaining' = remaining - 1
    /\ LET w == World(r, clock)
       IN  Commit(r, PostReviews(w,
                RemoteListReviews(Repo(w), w.me.items[w.me.prIdx + 1].number)))
    /\ UNCHANGED << clock, ticks, tokenOk, remote, pending, lastOp >>

\* a remote call fails (the network, a refusal): the awaited promise
\* rejects.  The pre-flight query's failure is caught and reported as
\* progress; every other failure leaves the try block.
RemoteFails(r) ==
    /\ run[r].pc \in Awaiting
    /\ \E message \in Messages :
        LET w == Throw(World(r, clock), RequestError(message))
        IN  Commit(r, IF run[r].pc = "preflight"
                      THEN PostBegin(PreflightCatch(w))
                      ELSE w)
    /\ UNCHANGED << clock, ticks, tokenOk, remaining, remote, pending, lastOp >>

\* the consumer drops the connection while the handler is suspended: the
\* stream is cancelled
Disconnect(r) ==
    /\ run[r].pc \notin { "idle", "done" }
    /\ ~run[r].cancelled
    /\ run' = [ run EXCEPT ![r].cancelled = TRUE ]
    /\ UNCHANGED << clock, ticks, tokenOk, octokit, lastRequestTime,
                    remaining, remote, db, pending, lastOp >>

\* time passes
Tick ==
    /\ ticks < MaxTicks
    /\ ticks' = ticks + 1
    /\ clock' = clock + TickMs
    /\ UNCHANGED << tokenOk, octokit, lastRequestTime, remaining, remote,
                    db, run, pending, lastOp >>

Next ==
    \/ \E r \in Slots, body \in Bodies : StartSync(r, body)
    \/ \E r \in Slots : PreflightResp(r)
    \/ \E r \in Slots : ThrottleWake(r)
    \/ \E r \in Slots : RateLimitResp(r)
    \/ \E r \in Slots : ListCommitsResp(r)
    \/ \E r \in Slots : GetCommitResp(r)
    \/ \E r \in Slots : ListPullsResp(r)
    \/ \E r \in Slots : GetPullResp(r)
    \/ \E r \in Slots : ListReviewsResp(r)
    \/ \E r \in Slots : RemoteFails(r)
    \/ \E r \in Slots : Disconnect(r)
    \/ Tick

\* ------------------------------------------------------ initial states

\* commit dates and update times the remote may hold: before the process
\* started, and (a committer's clock running ahead) far after it
Old == StartTime - 10 * TickMs
Skewed == StartTime + 1000 * TickMs

RemoteCommit(sha, date) == [ sha |-> sha, date |-> date, additions |-> 1 ]

RemotePull(id, number, updated_at, merged_at, reviews) ==
    [ id |-> id, number |-> number, updated_at |-> updated_at,
      merged_at |-> merged_at, additions |-> 2, reviews |-> reviews ]

RemoteReview(id) == [ id |-> id, state |-> "APPROVED" ]

\* a repository with nothing in it
RemoteEmpty == [ commits |-> << >>, pulls |-> << >> ]

\* one commit, one merged pull request with one review
RemoteSmall(repoId) ==
    [ commits |-> << RemoteCommit(10 * repoId + 1, Old) >>,
      pulls |-> << RemotePull(10 * repoId + 1, 1, Old, Some(Old),
                        << RemoteReview(100 * repoId + 1) >>) >> ]

\* a full page of commits and one more, no pull request
RemotePaged(repoId) ==
    [ commits |-> [ k \in 1..(PerPage + 1) |-> RemoteCommit(10 * repoId + k, Old) ],
      pulls |-> << >> ]

\* exactly one full page of commits, no pull request
RemoteFull(repoId) ==
    [ commits |-> [ k \in 1..PerPage |-> RemoteCommit(10 * repoId + k, Old) ],
      pulls |-> << >> ]

\* one commit dated after the sync
RemoteSkewed(repoId) ==
    [ commits |-> << RemoteCommit(10 * repoId + 1, Skewed) >>,
      pulls |-> << >> ]

\* no commit, two open pull requests, the first one with a review
RemoteTwoPulls(repoId) ==
    [ commits |-> << >>,
      pulls |-> << RemotePull(10 * repoId + 1, 1, Old, None,
                        << RemoteReview(100 * repoId + 1) >>),
                   RemotePull(10 * repoId + 2, 2, Old, None, << >>) >> ]

\* ---- Spec: one request over two tracked repositories

Worlds ==
    { [ id \in {1, 2} |-> IF id = 1 THEN a ELSE b ] :
        a \in { RemotePaged(1), RemoteFull(1), RemoteSkewed(1), RemoteEmpty },
        b \in { RemoteSmall(2), RemoteTwoPulls(2) } }

Budgets == { LoopMin + 1, PreflightMin - 1, PreflightMin, 2 * PreflightMin }

Init ==
    /\ clock = StartTime
    /\ ticks = 0
    /\ tokenOk \in BOOLEAN
    /\ octokit = FALSE
    /\ lastRequestTime = 0
    /\ remaining \in Budgets
    /\ remote \in Worlds
    /\ db = [ EmptyDb EXCEPT !.repos = << 1, 2 >> ]
    /\ run = [ r \in {1} |-> IdleRun ]
    /\ pending = 1
    /\ lastOp = None

Spec == Init /\ [][Next]_vars

\* ---- SpecRepeat: requests one after the other over one repository

InitRepeat ==
    /\ clock = StartTime
    /\ ticks = 0
    /\ tokenOk = TRUE
    /\ octokit = FALSE
    /\ lastRequestTime = 0
    /\ remaining = 2 * PreflightMin
    /\ remote \in { [ id \in {1} |-> a ] :
                      a \in { RemoteSmall(1), RemoteSkewed(1), RemoteEmpty } }
    /\ db = [ EmptyDb EXCEPT !.repos = << 1 >> ]
    /\ run = [ r \in {1} |-> IdleRun ]
    /\ pending = MaxRequests
    /\ lastOp = None

SpecRepeat == InitRepeat /\ [][Next]_vars

\* ---- SpecOverlap: two handlers at once over one repository

InitOverlap ==
    /\ clock = StartTime
    /\ ticks = 0
    /\ tokenOk = TRUE
    /\ octokit = FALSE
    /\ lastRequestTime = 0
    /\ remaining = 2 * PreflightMin
    /\ remote = [ id \in {1} |-> RemoteEmpty ]
    /\ db = [ EmptyDb EXCEPT !.repos = << 1 >> ]
    /\ run = [ r \in {1, 2} |-> IdleRun ]
    /\ pending = Cardinality({1, 2})
    /\ lastOp = None

\* the repository is empty: no detail or review call is ever made
NextOverlap ==
    \/ \E r \in Slots, body \in Bodies : StartSync(r, body)
    \/ \E r \in Slots : PreflightResp(r)
    \/ \E r \in Slots : ThrottleWake(r)
    \/ \E r \in Slots : RateLimitResp(r)
    \/ \E r \in Slots : ListCommitsResp(r)
    \/ \E r \in Slots : ListPullsResp(r)
    \/ \E r \in Slots : RemoteFails(r)
    \/ \E r \in Slots : Disconnect(r)
    \/ Tick

SpecOverlap == InitOverlap /\ [][NextOverlap]_vars

\* ---- SpecIncr: one request over a repository that has a watermark; the
\* remote lists its pull requests by update time, newest first

\* the stored watermark, and update times on both sides of it
Watermark == StartTime - 5 * TickMs
Newer == Watermark + TickMs
Older == Watermark - TickMs

\* the non-increasing sequences of length n over the three update times
RECURSIVE Descending(_)
Descending(n) ==
    IF n = 0 THEN { << >> }
    ELSE { Append(q, t) : q \in Descending(n - 1), t \in { Newer, Watermark, Older } }

SortedDescending == { q \in UNION { Descending(n) : n \in 0..(2 * PerPage + 1) } :
                        \A k \in 1..(Len(q) - 1) : q[k] >= q[k + 1] }

RemoteIncr(times) ==
    [ commits |-> << RemoteCommit(11, Newer) >>,
      pulls |-> [ k \in 1..Len(times) |->
                    RemotePull(10 + k, k, times[k], None, << >>) ] ]

InitIncr ==
    /\ clock = StartTime
    /\ ticks = 0
    /\ tokenOk = TRUE
    /\ octokit = FALSE
    /\ lastRequestTime = 0
    /\ remaining = 2 * PreflightMin
    /\ remote \in { [ id \in {1} |-> RemoteIncr(times) ] : times \in SortedDescending }
    /\ db = [ EmptyDb EXCEPT !.repos = << 1 >>,
                !.repo_sync_state =
                    { [ repo_id |-> 1, last_commit_sync |-> Some(Watermark),
                        last_pr_sync |-> Some(Watermark),
                        updated_at |-> Watermark ] } ]
    /\ run = [ r \in {1} |-> IdleRun ]
    /\ pending = 1
    /\ lastOp = None

SpecIncr == InitIncr /\ [][Next]_vars

\* ---- SpecUpsert: the three upserts applied directly to the store

CommitPayloads ==
    { [ sha |-> sha, repo_id |-> 1, additions |-> a, committed_at |-> Old ] :
        sha \in { 11, 12 }, a \in { 1, 2 } }

PullPayloads ==
    { [ id |-> 11, repo_id |-> 1, number |-> 1, additions |-> a, merged_at |-> m ] :
        a \in { 1, 2 }, m \in { None, Some(Old) } }

ReviewPayloads ==
    { [ id |-> 101, pr_id |-> 11, state |-> st ] :
        st \in { "APPROVED", "COMMENTED" } }

Applied(op, payload) == Some([ op |-> op, payload |-> payload ])

ApplyInsertCommit(commit) ==
    /\ db' = insertCommit(db, commit, clock)
    /\ lastOp' = Applied("insertCommit", commit)
    /\ UNCHANGED << clock, ticks, tokenOk, octokit, lastRequestTime,
                    remaining, remote, run, pending >>

ApplyInsertPullRequest(pr) ==
    /\ db' = insertPullRequest(db, pr, clock)
    /\ lastOp' = Applied("insertPullRequest", pr)
    /\ UNCHANGED << clock, ticks, tokenOk, octokit, lastRequestTime,
                    remaining, remote, run, pending >>

ApplyInsertReview(review) ==
    /\ db' = insertReview(db, review)
    /\ lastOp' = Applied("insertReview", review)
    /\ UNCHANGED << clock, ticks, tokenOk, octokit, lastRequestTime,
                    remaining, remote, run, pending >>

InitUpsert ==
    /\ clock = StartTime
    /\ ticks = 0
    /\ tokenOk = TRUE
    /\ octokit = FALSE
    /\ lastRequestTime = 0
    /\ remaining = 2 * PreflightMin
    /\ remote = [ id \in {1} |-> RemoteEmpty ]
    /\ db = [ EmptyDb EXCEPT !.repos = << 1 >> ]
    /\ run = [ r \in {1} |-> IdleRun ]
    /\ pending = 0
    /\ lastOp = None

NextUpsert ==
    \/ \E commit \in CommitPayloads : ApplyInsertCommit(commit)
    \/ \E pr \in PullPayloads : ApplyInsertPullRequest(pr)
    \/ \E review \in ReviewPayloads : ApplyInsertReview(review)
    \/ Tick

SpecUpsert == InitUpsert /\ [][NextUpsert]_vars

\* ---- SpecRemove: one sync request over two repositories, with
\* removal requests served whenever the handler is suspended or idle

\* DELETE /api/repos?id=...: removeRepo inside try/catch; the response is
\* 200 { success: true }, or 500 when removeRepo threw
Removals == IF IsSome(lastOp) THEN Val(lastOp).n ELSE 0

DeleteRepo(id) ==
    /\ Removals < MaxRemovals
    /\ LET res == removeRepo(db, id)
       IN  /\ db' = res.db
           /\ lastOp' = Some([ op |-> "removeRepo", payload |-> id,
                               status |-> IF IsSome(res.thrown) THEN 500 ELSE 200,
                               n |-> Removals + 1 ])
    /\ UNCHANGED << clock, ticks, tokenOk, octokit, lastRequestTime,
                    remaining, remote, run, pending >>

InitRemove ==
    /\ clock = StartTime
    /\ ticks = 0
    /\ tokenOk = TRUE
    /\ octokit = FALSE
    /\ lastRequestTime = 0
    /\ remaining = 2 * PreflightMin
    /\ remote = [ id \in {1, 2} |-> RemoteSmall(id) ]
    /\ db = [ EmptyDb EXCEPT !.repos = << 1, 2 >> ]
    /\ run = [ r \in {1} |-> IdleRun ]
    /\ pending = 1
    /\ lastOp = None

NextRemove ==
    \/ Next
    \/ \E id \in { 1, 2 } : DeleteRepo(id)

SpecRemove == InitRemove /\ [][NextRemove]_vars

\* ---- SpecPush: requests one after the other over one repository to
\* which, between two runs, a commit made earlier is pushed

\* a commit whose date is before every sync, pushed only now: the
\* remote lists it from now on
LatePush == RemoteCommit(19, Old)

RemotePush ==
    /\ \A r \in Slots : run[r].pc \in { "idle", "done" }
    /\ \A k \in 1..Len(remote[1].commits) : remote[1].commits[k].sha # LatePush.sha
    /\ remote' = [ remote EXCEPT ![1].commits = << LatePush >> \o @ ]
    /\ UNCHANGED << clock, ticks, tokenOk, octokit, lastRequestTime,
                    remaining, db, run, pending, lastOp >>

InitPush ==
    /\ clock = StartTime
    /\ ticks = 0
    /\ tokenOk = TRUE
    /\ octokit = FALSE
    /\ lastRequestTime = 0
    /\ remaining = 2 * PreflightMin
    /\ remote \in { [ id \in {1} |-> a ] : a \in { RemoteSmall(1), RemoteEmpty } }
    /\ db = [ EmptyDb EXCEPT !.repos = << 1 >> ]
    /\ run = [ r \in {1} |-> IdleRun ]
    /\ pending = MaxRequests
    /\ lastOp = None

NextPush ==
    \/ Next
    \/ RemotePush

SpecPush == InitPush /\ [][NextPush]_vars

\* ---- SpecLive: Spec, with every timer eventually fired and every
\* remote call eventually settled

\* the timer of a handler's throttle() fires
TimerFires == \E r \in Slots : ThrottleWake(r)

\* the remote call a handler awaits settles: the remote answers, or the
\* call fails
Settles(r) ==
    \/ PreflightResp(r)
    \/ RateLimitResp(r)
    \/ ListCommitsResp(r)
    \/ GetCommitResp(r)
    \/ ListPullsResp(r)
    \/ GetPullResp(r)
    \/ ListReviewsResp(r)
    \/ RemoteFails(r)

CallSettles == \E r \in Slots : Settles(r)

\* some handler awaits a remote call.  RemoteFails(r) is possible exactly
\* then, so this is ENABLED <<CallSettles>>_vars
CallPending == \E r \in Slots : run[r].pc \in Awaiting

\* weak fairness of CallSettles, with its enabling condition written
\* out: a call is not pending forever without settling
CallsSettle == []<>(~CallPending) \/ []<><<CallSettles>>_vars

SpecLive ==
    Init /\ [][Next]_vars /\ WF_vars(TimerFires) /\ CallsSettle

\* ---- SpecFork: one request over a repository and a fork of it

\* a fork: its history holds the parent's commits, under the same shas,
\* and one commit of its own
RemoteFork(repoId, parent) ==
    [ commits |-> << RemoteCommit(10 * repoId + 2, Old) >> \o parent.commits,
      pulls |-> << >> ]

InitFork ==
    /\ clock = StartTime
    /\ ticks = 0
    /\ tokenOk \in BOOLEAN
    /\ octokit = FALSE
    /\ lastRequestTime = 0
    /\ remaining \in Budgets
    /\ remote \in { [ id \in {1, 2} |-> IF id = 1 THEN a ELSE RemoteFork(2, a) ] :
                      a \in { RemoteSmall(1), RemoteSkewed(1) } }
    /\ db = [ EmptyDb EXCEPT !.repos = << 1, 2 >> ]
    /\ run = [ r \in {1} |-> IdleRun ]
    /\ pending = 1
    /\ lastOp = None

SpecFork == InitFork /\ [][Next]_vars

\* =================================================================
\* properties
\* =================================================================

Terminal(e) == e.type \in { "complete", "error" }

\* the positions of the terminal events in a stream
TerminalAt(stream) == { k \in 1..Len(stream) : Terminal(stream[k]) }

\* the handlers that created a SyncRun record, and their record
Recorded == { r \in Slots : IsSome(run[r].syncRunId) }

RowOf(r) == db.sync_runs[Val(run[r].syncRunId)]

\* the repositories of a handler's list whose cycle finished: the cycle's
\* last write is the watermark row
CyclesDone(r) ==
    Cardinality({ k \in 1..Len(run[r].reposToSync) :
                    IsSome(getRepoSyncState(db, run[r].reposToSync[k])) })

\* ---- C1
\* C1: an ended run that created a SyncRun record has status `complete`
\* iff every repository's cycle finished and no error was caught, `partial`
\* iff an error was caught after at least one cycle finished, `error` iff
\* an error was caught before any cycle finished; after a failure the
\* persisted completed_repos is the number of finished cycles, which is
\* the 0-based position of the repository the failure happened in.
C1_TerminalStatus ==
    \A r \in Recorded : run[r].pc = "done" =>
        LET me == run[r]
            row == RowOf(r)
            failed == IsSome(me.caught)
        IN  /\ row.status \in { "complete", "partial", "error" }
            /\ row.status = "complete" <=>
                    ~failed /\ CyclesDone(r) = Len(me.reposToSync)
            /\ row.status = "partial" <=> failed /\ CyclesDone(r) > 0
            /\ row.status = "error" <=> failed /\ CyclesDone(r) = 0
            /\ failed => /\ row.completed_repos = CyclesDone(r)
                         /\ row.completed_repos = me.i

\* a run over two repositories that failed in the second one
C1_Witness ==
    \E r \in Recorded :
        /\ run[r].pc = "done"
        /\ Len(run[r].reposToSync) = 2
        /\ IsSome(run[r].caught)
        /\ run[r].i = 1
        /\ RowOf(r).status = "partial"
        /\ RowOf(r).completed_repos = 1

\* ---- C2
\* C2: a stream holds at most one terminal event; if it holds one, that
\* event is its last event and the stream is closed; a closed stream ends
\* with its terminal event; and the stream of an ended handler whose
\* consumer did not drop the connection is closed.
C2_OneTerminalEvent ==
    \A r \in Slots :
        LET me == run[r]
            T == TerminalAt(me.stream)
        IN  /\ Cardinality(T) <= 1
            /\ T # {} => T = { Len(me.stream) } /\ me.closed
            /\ me.closed => T = { Len(me.stream) }
            /\ me.pc = "done" /\ ~me.cancelled => me.closed

\* a run that went through both repositories and ended with `complete`
C2_Witness ==
    \E r \in Slots :
        /\ run[r].pc = "done"
        /\ run[r].closed
        /\ run[r].completedRepos = 2
        /\ Len(run[r].stream) > 3
        /\ run[r].stream[Len(run[r].stream)].type = "complete"

\* ---- C3
\* C3: completeSyncRun is applied to a record at most once, a record is
\* `running` exactly while it has not been applied, every ended handler
\* that created a record has applied it once, and a record whose status
\* has left `running` keeps its status, completion time and error message.
C3_Finalized ==
    /\ \A id \in 1..Len(db.sync_runs) :
            /\ db.sync_runs[id].finalized <= 1
            /\ db.sync_runs[id].status = "running" <=>
                    db.sync_runs[id].finalized = 0
    /\ \A r \in Recorded : run[r].pc = "done" => RowOf(r).finalized = 1

C3_NeverRewritten ==
    \A id \in 1..Len(db.sync_runs) :
        db.sync_runs[id].status # "running" =>
            /\ id <= Len(db'.sync_runs)
            /\ db'.sync_runs[id].status = db.sync_runs[id].status
            /\ db'.sync_runs[id].completed_at = db.sync_runs[id].completed_at
            /\ db'.sync_runs[id].error_message = db.sync_runs[id].error_message

C3_FinalizedOnce == [] C3_Finalized /\ [][C3_NeverRewritten]_vars

\* a run finalized from the catch block after its consumer went away
C3_Witness ==
    \E r \in Recorded :
        /\ run[r].pc = "done"
        /\ run[r].cancelled
        /\ IsSome(run[r].caught)
        /\ RowOf(r).finalized = 1
        /\ RowOf(r).status = "partial"

\* ---- C4
\* the status a terminal event stands for
Matches(event, status) ==
    IF event.type = "complete" THEN status = "complete"
    ELSE status \in { "partial", "error" }

LastEvent(r) == run[r].stream[Len(run[r].stream)]

HasTerminal(r) == TerminalAt(run[r].stream) # {}

\* C4 as stated: whenever a stream ends with a terminal event, the
\* last-sync-run query returns a record with the matching status.
C4_Original ==
    \A r \in Slots : HasTerminal(r) =>
        /\ IsSome(getLastSyncRun(db))
        /\ Matches(LastEvent(r), Val(getLastSyncRun(db)).status)

\* C4: whenever the stream of a request that created a SyncRun record
\* ends with a terminal event, the last-sync-run query returns that record
\* with the matching status; a request whose stream ends before a record
\* is created ends with an `error` event and persists no record.
C4_Amended ==
    \A r \in Slots : HasTerminal(r) =>
        IF r \in Recorded
        THEN /\ getLastSyncRun(db) = Some(RowOf(r))
             /\ Matches(LastEvent(r), RowOf(r).status)
        ELSE /\ LastEvent(r).type = "error"
             /\ getLastSyncRun(db) = None

\* an `error` event whose outcome is read back as `error`
C4_Witness ==
    \E r \in Recorded :
        /\ HasTerminal(r)
        /\ LastEvent(r).type = "error"
        /\ IsSome(LastEvent(r).resetAt)
        /\ Val(getLastSyncRun(db)).status = "error"

\* ---- C5
\* C5: when the pre-flight query answers fewer than 50 remaining, the
\* handler ends in that step without invoking a fetcher and without a
\* write to the store, and (its consumer still connected) its stream is
\* closed after an `error` event carrying the reset time; when it answers
\* 50 or more, the handler (its consumer still connected) creates its
\* record and enters the first repository's cycle, invoking the commits
\* fetcher.
C5_Gate(r) ==
    IF remaining < PreflightMin
    THEN /\ run'[r].pc = "done"
         /\ run'[r].fetches = 0
         /\ db' = db
         /\ ~run[r].cancelled =>
                /\ run'[r].closed
                /\ LastEvent(r)' = PreflightErrorEvent(ResetAt)
    ELSE ~run[r].cancelled =>
            /\ run'[r].pc # "done"
            /\ IsSome(run'[r].syncRunId)
            /\ \E k \in 1..Len(run'[r].stream) :
                    run'[r].stream[k] = RepoStartEvent(1)
            /\ run'[r].fetches = 1

C5_PreflightGate == [][\A r \in Slots : PreflightResp(r) => C5_Gate(r)]_vars

\* a request refused by the gate: one short of the threshold
C5_Witness ==
    \E r \in Slots :
        /\ remaining = PreflightMin - 1
        /\ run[r].pc = "done"
        /\ run[r].fetches = 0
        /\ run[r].closed
        /\ LastEvent(r) = PreflightErrorEvent(ResetAt)
        /\ db.sync_runs = << >>

\* ---- C6 (SpecUpsert)
\* the second of two applications of an upsert with an identical payload
Again(op, payload) == lastOp = Applied(op, payload)

\* C6 as stated: the second application of an upsert with an identical
\* payload leaves the stored rows and all their field values unchanged.
C6_Original ==
    [][ /\ \A c \in CommitPayloads :
            Again("insertCommit", c) /\ ApplyInsertCommit(c) => db' = db
        /\ \A p \in PullPayloads :
            Again("insertPullRequest", p) /\ ApplyInsertPullRequest(p) => db' = db
        /\ \A v \in ReviewPayloads :
            Again("insertReview", v) /\ ApplyInsertReview(v) => db' = db ]_vars

\* C6: the second application of an upsert with an identical payload
\* leaves exactly one row for the key, every other row untouched and the
\* supplied fields of the key's row unchanged; the row's fetched_at
\* (commits, pull requests) is set again, to the time of the second
\* application; a review row, which has no such column, is unchanged.
C6_Amended ==
    [][ /\ \A c \in CommitPayloads :
            Again("insertCommit", c) /\ ApplyInsertCommit(c) =>
                LET rows == { x \in db'.commits : x.sha = c.sha }
                IN  /\ Cardinality(rows) = 1
                    /\ \A x \in rows : /\ CommitPayload(x) = c
                                       /\ x.fetched_at = CurrentTimestamp(clock)
                    /\ { CommitPayload(x) : x \in db'.commits } =
                       { CommitPayload(x) : x \in db.commits }
                    /\ db'.commits \ rows = { x \in db.commits : x.sha # c.sha }
                    /\ [ db' EXCEPT !.commits = {} ] = [ db EXCEPT !.commits = {} ]
        /\ \A p \in PullPayloads :
            Again("insertPullRequest", p) /\ ApplyInsertPullRequest(p) =>
                LET rows == { x \in db'.pull_requests : x.id = p.id }
                IN  /\ Cardinality(rows) = 1
                    /\ \A x \in rows : /\ PullPayload(x) = p
                                       /\ x.fetched_at = CurrentTimestamp(clock)
                    /\ { PullPayload(x) : x \in db'.pull_requests } =
                       { PullPayload(x) : x \in db.pull_requests }
                    /\ [ db' EXCEPT !.pull_requests = {} ] =
                       [ db EXCEPT !.pull_requests = {} ]
        /\ \A v \in ReviewPayloads :
            Again("insertReview", v) /\ ApplyInsertReview(v) =>
                /\ Cardinality({ x \in db'.reviews : x.id = v.id }) = 1
                /\ db' = db ]_vars

\* a commit stored a second time, a second later, beside another commit
C6_Witness ==
    /\ \E c \in CommitPayloads :
        /\ Again("insertCommit", c)
        /\ \E x \in db.commits :
            /\ CommitPayload(x) = c
            /\ x.fetched_at = CurrentTimestamp(clock)
            /\ x.fetched_at # CurrentTimestamp(StartTime)
    /\ Cardinality(db.commits) = 2

\* ---- C7 (SpecRepeat)
\* the handler completes a repository's cycle in this step
CycleCompletes(r) == run'[r].completedRepos = run[r].completedRepos + 1

\* the handler enters a repository's cycle in this step
InCycle(me) == me.pc \notin { "idle", "done", "preflight" }

CycleStarts(r) ==
    /\ InCycle(run'[r])
    /\ ~InCycle(run[r]) \/ run'[r].i # run[r].i

\* C7: the step that completes a repository's cycle leaves both of the
\* repository's watermarks equal to the cycle's start time, whatever was
\* stored before and whatever was fetched; the start time is the clock's
\* value in the step that enters the cycle, when the cycle has invoked no
\* fetcher yet, and it does not change during the cycle.
C7_Step(r) ==
    /\ CycleCompletes(r) =>
        LET state == getRepoSyncState(db', run[r].reposToSync[run[r].i + 1])
        IN  /\ IsSome(state)
            /\ Val(state).last_commit_sync = Some(run[r].syncStartTime)
            /\ Val(state).last_pr_sync = Some(run[r].syncStartTime)
    /\ CycleStarts(r) =>
        /\ run'[r].syncStartTime = ToISOString(clock')
        /\ run'[r].fetches = run[r].fetches + 1
        /\ run'[r].site = "c_page" /\ run'[r].page = 1
    /\ InCycle(run[r]) /\ InCycle(run'[r]) /\ ~CycleStarts(r) =>
        run'[r].syncStartTime = run[r].syncStartTime

C7_WatermarksAreCycleStart == [][\A r \in Slots : C7_Step(r)]_vars

\* a second successful cycle replaced the first one's watermarks
C7_Witness ==
    /\ Len(db.sync_runs) = 2
    /\ \A id \in 1..2 : db.sync_runs[id].status = "complete"
    /\ \E state \in db.repo_sync_state :
        /\ state.last_commit_sync = state.last_pr_sync
        /\ Val(state.last_commit_sync) > StartTime
        /\ state.last_commit_sync = Some(db.sync_runs[2].started_at)

\* ---- C8 (SpecOverlap)
\* watermarks in their order: none, then by time
AtLeast(new, old) ==
    IF IsSome(old) THEN IsSome(new) /\ Val(new) >= Val(old) ELSE TRUE

NotDecreased(old, new) ==
    /\ AtLeast(new.last_commit_sync, old.last_commit_sync)
    /\ AtLeast(new.last_pr_sync, old.last_pr_sync)

\* C8 as stated: no step decreases a watermark, whether the runs are
\* sequential or overlap.
C8_Original ==
    [][ \A old \in db.repo_sync_state :
            \E new \in db'.repo_sync_state :
                new.repo_id = old.repo_id /\ NotDecreased(old, new) ]_vars

\* C8: a repository's watermark row is never removed, and the step that
\* completes a cycle does not decrease a watermark if the stored row is
\* still the one the cycle read when it started (no other run's cycle on
\* the repository completed in between); the write of a cycle that
\* overlapped such a cycle stores its own, possibly earlier, start time.
C8_Amended ==
    [][ /\ \A old \in db.repo_sync_state :
            \E new \in db'.repo_sync_state : new.repo_id = old.repo_id
        /\ \A r \in Slots : CycleCompletes(r) =>
            LET repoId == run[r].reposToSync[run[r].i + 1]
                old == getRepoSyncState(db, repoId)
                new == Val(getRepoSyncState(db', repoId))
            IN  /\ old = run[r].syncState /\ IsSome(old) =>
                    NotDecreased(Val(old), new)
                /\ new.last_commit_sync = Some(run[r].syncStartTime)
        /\ \A old \in db.repo_sync_state : \A new \in db'.repo_sync_state :
            new.repo_id = old.repo_id /\ new # old =>
                \E r \in Slots : CycleCompletes(r) ]_vars

\* two runs one after the other: the later one moved the watermark forward
C8_Witness ==
    /\ Len(db.sync_runs) = 2
    /\ db.sync_runs[1].status = "complete"
    /\ db.sync_runs[2].status = "complete"
    /\ db.sync_runs[1].completed_at[1] <= db.sync_runs[2].started_at
    /\ \E state \in db.repo_sync_state :
        state.last_commit_sync = Some(db.sync_runs[2].started_at)

\* ---- C9 (SpecRepeat)
\* the handler is inside the commits fetcher
InFetchCommits(me) == InCycle(me) /\ me.site \in { "c_page", "c_item" }

\* the handler's cycle is past the commits fetcher
PastFetchCommits(me) == InCycle(me) /\ me.site \in { "p_page", "p_item", "r" }

StoredCommitSync(r) ==
    LET state == getRepoSyncState(db, run[r].reposToSync[run[r].i + 1])
    IN  IF IsSome(state) THEN Val(state).last_commit_sync ELSE None

\* the commits fetcher's `since` is the stored last_commit_sync, or none
SinceIsWatermark ==
    \A r \in Slots : InFetchCommits(run[r]) => run[r].since = StoredCommitSync(r)

\* C9 as stated: `since` is the stored watermark (none without sync
\* state), and a cycle on a repository that has sync state fetches and
\* stores zero commits from the unchanged remote.
C9_Original ==
    /\ SinceIsWatermark
    /\ \A r \in Slots :
        PastFetchCommits(run[r]) /\ IsSome(run[r].syncState) =>
            run[r].repoResult.commits = 0

\* C9: `since` is the stored watermark (none without sync state); a cycle
\* on a repository that has sync state fetches and stores again exactly
\* the commits of the unchanged remote that are dated at or after the
\* watermark, all of them stored already, and zero commits when every
\* commit is dated before the watermark.
C9_Amended ==
    /\ SinceIsWatermark
    /\ \A r \in Slots :
        PastFetchCommits(run[r]) /\ IsSome(run[r].syncState) =>
            LET all == remote[run[r].reposToSync[run[r].i + 1]].commits
                late == { k \in 1..Len(all) :
                            all[k].date >= Val(StoredCommitSync(r)) }
            IN  /\ run[r].repoResult.commits = Cardinality(late)
                /\ \A k \in 1..Len(all) : \E c \in db.commits : c.sha = all[k].sha
                /\ Cardinality(db.commits) = Len(all)

\* a second cycle that found nothing to fetch among the stored commits
C9_Witness ==
    \E r \in Slots :
        /\ PastFetchCommits(run[r])
        /\ IsSome(run[r].syncState)
        /\ run[r].repoResult.commits = 0
        /\ db.commits # {}

\* ---- C10 (SpecIncr)
\* the handler is inside the pull-request fetcher, or past it
InFetchPulls(me) == InCycle(me) /\ me.site \in { "p_page", "p_item" }

OlderOnPage(r, page) ==
    \E k \in 1..Len(RemoteListPulls(run[r].reposToSync[run[r].i + 1], page, PerPage)) :
        IsOlder(RemoteListPulls(run[r].reposToSync[run[r].i + 1], page, PerPage)[k],
                run[r].since)

\* C10: the pull-request fetcher called with a watermark collects no pull
\* request updated before the watermark, none is stored, and while it
\* requests page n no page before n held a pull request updated before
\* the watermark.
C10_OlderShortCircuit ==
    \A r \in Slots :
        /\ PastFetchCommits(run[r]) /\ IsSome(run[r].since) =>
            \A k \in 1..Len(run[r].items) :
                run[r].items[k].updated_at >= Val(run[r].since)
        /\ \A row \in db.pull_requests :
            \A id \in DOMAIN remote :
                \A k \in 1..Len(remote[id].pulls) :
                    remote[id].pulls[k].id = row.id =>
                        remote[id].pulls[k].updated_at >= Watermark
        /\ InFetchPulls(run[r]) /\ IsSome(run[r].since) =>
            \A page \in 1..(run[r].page - 1) : ~OlderOnPage(r, page)

\* three pages, the second one with an older pull request: the run ended
\* with only the newer ones stored
C10_Witness ==
    \E r \in Slots :
        /\ Len(remote[1].pulls) = 2 * PerPage + 1
        /\ ~IsOlder(remote[1].pulls[PerPage], Some(Watermark))
        /\ IsOlder(remote[1].pulls[PerPage + 1], Some(Watermark))
        /\ run[r].pc = "done"
        /\ run[r].completedRepos = 1
        /\ Cardinality(db.pull_requests) = PerPage

\* ---- C11 (Spec)
\* the handler ended on a failed remote call or a refused budget check
\* that found it at one of `sites`
FailedIn(r, sites) ==
    /\ run[r].pc = "done"
    /\ IsSome(run[r].caught)
    /\ Val(run[r].caught).name \in { "RequestError", "RateLimitError" }
    /\ run[r].site \in sites

FailedRepo(r) == run[r].reposToSync[run[r].i + 1]

StoredShas(repoId) == { c.sha : c \in { x \in db.commits : x.repo_id = repoId } }

StoredPulls(repoId) == { p.id : p \in { x \in db.pull_requests : x.repo_id = repoId } }

RemoteShas(repoId) ==
    { remote[repoId].commits[k].sha : k \in 1..Len(remote[repoId].commits) }

\* C11 as stated: when a remote call fails inside the commits or the
\* pull-request fetcher, every item the fetcher had collected is in the
\* store when the run ends.
C11_Original ==
    \A r \in Slots :
        /\ FailedIn(r, { "c_page", "c_item" }) =>
            \A k \in 1..Len(run[r].items) :
                run[r].items[k].sha \in StoredShas(FailedRepo(r))
        /\ FailedIn(r, { "p_page", "p_item" }) =>
            \A k \in 1..Len(run[r].items) :
                run[r].items[k].id \in StoredPulls(FailedRepo(r))

\* C11: a fetcher's items are persisted after the fetcher returns.  When
\* a remote call fails inside the commits fetcher, no commit of that
\* repository is stored by the cycle; when it fails inside the
\* pull-request fetcher, all the repository's commits are stored and none
\* of its pull requests; when a reviews request fails, the pull requests
\* up to the one whose reviews were requested are stored, with the reviews
\* of those before it, and no later one.
C11_Amended ==
    \A r \in Slots :
        /\ FailedIn(r, { "c_page", "c_item" }) =>
            /\ StoredShas(FailedRepo(r)) = {}
            /\ StoredPulls(FailedRepo(r)) = {}
        /\ FailedIn(r, { "p_page", "p_item" }) =>
            /\ StoredShas(FailedRepo(r)) = RemoteShas(FailedRepo(r))
            /\ StoredPulls(FailedRepo(r)) = {}
        /\ FailedIn(r, { "r" }) =>
            /\ StoredShas(FailedRepo(r)) = RemoteShas(FailedRepo(r))
            /\ StoredPulls(FailedRepo(r)) =
                    { run[r].items[k].id : k \in 1..(run[r].prIdx + 1) }
            /\ { v.pr_id : v \in db.reviews } \subseteq
                    { run[r].items[k].id : k \in 1..run[r].prIdx }
            /\ \A k \in 1..run[r].prIdx :
                \A j \in 1..Len(RemoteListReviews(FailedRepo(r), run[r].items[k].number)) :
                    \E v \in db.reviews :
                        v.id = RemoteListReviews(FailedRepo(r),
                                                 run[r].items[k].number)[j].id

\* a failure inside the commits fetcher after it had collected commits
C11_Witness ==
    \E r \in Slots :
        /\ FailedIn(r, { "c_page", "c_item" })
        /\ Len(run[r].items) >= PerPage
        /\ db.commits = {}

\* -----------------------------------------------------------------
\* C12  removeRepo(r) deletes the repository r, every commit and pull
\* request of r and every review of r's pull requests, and leaves every
\* other repository and all of its commits, pull requests and reviews
\* unchanged.
\* -----------------------------------------------------------------

\* this step serves a removal request for repository id
Removes(id) ==
    /\ lastOp' # lastOp
    /\ IsSome(lastOp')
    /\ Val(lastOp').op = "removeRepo"
    /\ Val(lastOp').payload = id

PullsOf(d, id) == { p \in d.pull_requests : p.repo_id = id }

ReviewsOf(d, id) ==
    { v \in d.reviews : \E p \in PullsOf(d, id) : p.id = v.pr_id }

\* the rows of the repositories other than id
OthersOf(d, id) ==
    [ repos |-> SelectSeq(d.repos, LAMBDA x : x # id),
      commits |-> { c \in d.commits : c.repo_id # id },
      pull_requests |-> { p \in d.pull_requests : p.repo_id # id },
      reviews |-> d.reviews \ ReviewsOf(d, id) ]

\* C12: a removal of repository id leaves no row of id in repos, commits,
\* pull_requests, no review of its pull requests, and every other
\* repository's rows as they were
C12_RemoveRepo ==
    [][ \A id \in { 1, 2 } :
            Removes(id) =>
                /\ ~RepoExists(db', id)
                /\ { c \in db'.commits : c.repo_id = id } = {}
                /\ PullsOf(db', id) = {}
                /\ db'.reviews \cap ReviewsOf(db, id) = {}
                /\ OthersOf(db', id) = OthersOf(db, id) ]_vars

\* what the code does do in every case: the commits, pull requests and
\* reviews go, the others stay; the repository itself goes unless it has
\* a watermark row
C12_Frame ==
    [][ \A id \in { 1, 2 } :
            Removes(id) =>
                /\ { c \in db'.commits : c.repo_id = id } = {}
                /\ PullsOf(db', id) = {}
                /\ db'.reviews \cap ReviewsOf(db, id) = {}
                /\ OthersOf(db', id) = OthersOf(db, id)
                /\ RepoExists(db', id) <=>
                        /\ RepoExists(db, id)
                        /\ IsSome(getRepoSyncState(db, id)) ]_vars

\* a removal of a synced repository was answered 500 and the repository
\* is still tracked, its commits gone
C12_Witness ==
    /\ IsSome(lastOp)
    /\ Val(lastOp).op = "removeRepo"
    /\ Val(lastOp).status = 500
    /\ RepoExists(db, Val(lastOp).payload)
    /\ IsSome(getRepoSyncState(db, Val(lastOp).payload))
    /\ { c \in db.commits : c.repo_id = Val(lastOp).payload } = {}

\* -----------------------------------------------------------------
\* C13  Every commit, pull request or review inserted by a sync
\* references a repository that exists in the repositories table at the
\* moment of the insert, in every interleaving, including when a removal
\* request is served while the run is suspended.
\* -----------------------------------------------------------------

\* C13: every row a step adds to commits or pull_requests names a
\* repository that repos held when the step began, and every review it
\* adds names a stored pull request of such a repository
C13_NoOrphanInsert ==
    [][ /\ \A c \in db'.commits \ db.commits : RepoExists(db, c.repo_id)
        /\ \A p \in db'.pull_requests \ db.pull_requests :
                RepoExists(db, p.repo_id)
        /\ \A v \in db'.reviews \ db.reviews :
                \E p \in db.pull_requests :
                    p.id = v.pr_id /\ RepoExists(db, p.repo_id) ]_vars

\* a repository was removed while the run was fetching it, and the run's
\* next insert for it was refused
C13_Witness ==
    \E r \in Slots :
        /\ run[r].pc = "done"
        /\ IsSome(run[r].caught)
        /\ Val(run[r].caught).name = "SqliteError"
        /\ IsSome(lastOp)
        /\ Val(lastOp).status = 200
        /\ ~RepoExists(db, FailedRepo(r))

\* -----------------------------------------------------------------
\* C14  If the consumer disconnects from the progress stream while a run
\* is in progress, the run still processes every remaining target
\* repository and finalizes its SyncRun with the same terminal status and
\* counts it would have reached with the consumer attached.
\* -----------------------------------------------------------------

\* the failures a run meets with its consumer attached
RemoteFailures == { "RequestError", "RateLimitError", "GitHubConfigError" }

\* C14: a run whose consumer left ends as it would have with the consumer
\* attached: all its targets completed and the record `complete`, or a
\* failure of the remote or of the credential caught
C14_DisconnectIgnored ==
    \A r \in Slots :
        ( /\ run[r].pc = "done"
          /\ run[r].cancelled
          /\ IsSome(run[r].syncRunId) )
        => \/ /\ RowOf(r).status = "complete"
              /\ RowOf(r).completed_repos = Len(run[r].reposToSync)
           \/ /\ IsSome(run[r].caught)
              /\ Val(run[r].caught).name \in RemoteFailures

\* the consumer left, nothing else failed, and the run ended before its
\* last target with the record `partial` or `error`
C14_Witness ==
    \E r \in Slots :
        /\ run[r].pc = "done"
        /\ run[r].cancelled
        /\ IsSome(run[r].syncRunId)
        /\ IsSome(run[r].caught)
        /\ Val(run[r].caught).name = "TypeError"
        /\ RowOf(r).status \in { "partial", "error" }
        /\ RowOf(r).completed_repos < Len(run[r].reposToSync)

\* -----------------------------------------------------------------
\* C15  After an error is raised while processing repository k of a run,
\* no fetcher is invoked again for repository k and none for any later
\* repository; no further repo_start or repo_done event is emitted and
\* no watermark of repository k or of a later one is changed by that run.
\* -----------------------------------------------------------------

\* the run has caught an error: its handler has ended, the stream holds
\* no repo_start after the failing repository's and no repo_done for it
\* or a later one, and neither it nor a later one has a watermark
ErrorStops(r) ==
    /\ run[r].pc = "done"
    /\ \A k \in 1..Len(run[r].stream) :
        LET e == run[r].stream[k]
        IN  /\ e.type = "repo_start" => e.index <= run[r].i + 1
            /\ e.type = "repo_done" => e.index <= run[r].i
    /\ \A j \in (run[r].i + 1)..Len(run[r].reposToSync) :
        ~IsSome(getRepoSyncState(db, run[r].reposToSync[j]))

\* C15: a step that leaves a run with a caught error leaves it stopped,
\* and every later step leaves its fetcher calls, its stream and the
\* watermarks as they are
C15_ErrorAborts ==
    [][ \A r \in Slots :
            IsSome(run'[r].caught) =>
                /\ ErrorStops(r)'
                /\ IsSome(run[r].caught) =>
                    /\ run'[r].fetches = run[r].fetches
                    /\ run'[r].stream = run[r].stream
                    /\ db'.repo_sync_state = db.repo_sync_state ]_vars

\* the first repository was completed, a remote call for the second one
\* failed, and time has passed since
C15_Witness ==
    \E r \in Slots :
        /\ FailedIn(r, { "c_page", "c_item", "p_page", "p_item", "r" })
        /\ run[r].i = 1
        /\ Len(run[r].reposToSync) = 2
        /\ ticks > 0
        /\ clock > Val(RowOf(r).completed_at)

\* -----------------------------------------------------------------
\* C16  Within one run the repositories are processed strictly
\* sequentially in list order (repo_start i, then repo_done i, before
\* repo_start i+1); within a repository every commit is fetched and
\* persisted before the first pull-request request is sent; each pull
\* request is persisted before its reviews are fetched, and its reviews
\* are fetched and persisted before the next pull request is persisted.
\* -----------------------------------------------------------------

\* the repo_start and repo_done events of a stream, in order
Milestones(stream) ==
    SelectSeq(stream, LAMBDA e : e.type \in { "repo_start", "repo_done" })

\* repo_start 1, repo_done 1, repo_start 2, repo_done 2, ...
Alternating(ms) ==
    \A k \in 1..Len(ms) :
        /\ ms[k].type = IF k % 2 = 1 THEN "repo_start" ELSE "repo_done"
        /\ ms[k].index = (k + 1) \div 2

\* the ids of the reviews the remote lists for these pull requests
RemoteReviewIds(repoId, prs) ==
    UNION { { RemoteListReviews(repoId, pr.number)[k].id :
                k \in 1..Len(RemoteListReviews(repoId, pr.number)) } :
            pr \in prs }

\* the ids of the stored reviews of the repository's stored pull requests
StoredReviewIds(repoId) ==
    { v.id : v \in { x \in db.reviews : x.pr_id \in StoredPulls(repoId) } }

\* C16: the milestones of every stream alternate in list order; while
\* pull requests are being requested every commit of the repository is
\* stored and no pull request is; while the reviews of the pull request
\* at prIdx are awaited, the pull requests up to it are stored and no
\* later one, with the reviews of the ones before it and no other
C16_Sequential ==
    \A r \in Slots :
        /\ Alternating(Milestones(run[r].stream))
        /\ ( InCycle(run[r]) /\ ~run[r].cancelled ) =>
            Len(Milestones(run[r].stream)) = 2 * run[r].i + 1
        /\ PastFetchCommits(run[r]) =>
            StoredShas(Repo([ me |-> run[r] ])) =
                RemoteShas(Repo([ me |-> run[r] ]))
        /\ InFetchPulls(run[r]) =>
            StoredPulls(Repo([ me |-> run[r] ])) = {}
        /\ ( InCycle(run[r]) /\ run[r].site = "r" ) =>
            LET repoId == Repo([ me |-> run[r] ])
                items == run[r].items
                upTo(n) == { items[k] : k \in 1..n }
            IN  /\ StoredPulls(repoId) =
                    { pr.id : pr \in upTo(run[r].prIdx + 1) }
                /\ StoredReviewIds(repoId) =
                    RemoteReviewIds(repoId, upTo(run[r].prIdx))

\* the reviews of the second pull request are awaited: both pull requests
\* and the first one's review are stored
C16_Witness ==
    \E r \in Slots :
        /\ run[r].pc = "listReviews"
        /\ run[r].prIdx = 1
        /\ Len(run[r].items) = 2
        /\ run[r].i = 1
        /\ StoredReviewIds(Repo([ me |-> run[r] ])) # {}

\* -----------------------------------------------------------------
\* C17  The three failure classes are pairwise distinguishable in the
\* terminal event: a missing or placeholder credential ends the run,
\* without any list or detail request being sent, in an `error` event
\* marked as a configuration error; a rate-limit failure raised during a
\* fetch ends it in an `error` event carrying the reset time; any other
\* remote failure ends it in an `error` event carrying neither marker.
\* -----------------------------------------------------------------

\* the run's stream ends with an error event carrying these markers
EndsInError(r, errorType, resetAt) ==
    /\ Len(run[r].stream) > 0
    /\ LastEvent(r).type = "error"
    /\ LastEvent(r).errorType = errorType
    /\ LastEvent(r).resetAt = resetAt

\* C17: without a credential the handler never awaits a remote call and a
\* run that resolved its targets ends in the error event marked `config`;
\* a caught rate-limit error ends the stream in the error event with the
\* reset time, a failed request in the error event with neither marker
\* (the consumer being attached)
C17_FailureClasses ==
    \A r \in Slots :
        /\ ~tokenOk =>
            /\ run[r].pc \notin Awaiting \cup { "throttle" }
            /\ ( run[r].pc = "done" /\ Len(run[r].reposToSync) > 0 ) =>
                /\ IsSome(run[r].caught)
                /\ Val(run[r].caught).name = "GitHubConfigError"
        /\ ( run[r].pc = "done" /\ IsSome(run[r].caught)
             /\ ~run[r].cancelled ) =>
            LET name == Val(run[r].caught).name
            IN  /\ name = "GitHubConfigError" =>
                    ~tokenOk /\ EndsInError(r, Some("config"), None)
                /\ name = "RateLimitError" =>
                    EndsInError(r, None, Some(ResetAt))
                /\ name = "RequestError" =>
                    EndsInError(r, None, None)

\* no credential: the run ended in the configuration error event with no
\* fetcher past its first line
C17_Witness ==
    \E r \in Slots :
        /\ ~tokenOk
        /\ run[r].pc = "done"
        /\ run[r].site = ""
        /\ run[r].fetches = 1
        /\ EndsInError(r, Some("config"), None)

\* -----------------------------------------------------------------
\* C18  If target resolution fails (the named repository is not tracked,
\* or the resolved set contains zero repositories) the stream consists of
\* a single `error` event, and no rate-limit query, no SyncRun record, no
\* fetcher call and no write to commits, pull requests, reviews or
\* watermarks happens.
\* -----------------------------------------------------------------

\* the handler has ended on an empty target list
Unresolved(r) == run[r].pc = "done" /\ Len(run[r].reposToSync) = 0

\* C18: a handler that resolved no target leaves one error event on a
\* closed stream, no SyncRun id, no fetcher call, no client created for a
\* query, and the store as it was before the request
C18_NoTargets ==
    \A r \in Slots :
        Unresolved(r) =>
            /\ run[r].stream = << PlainErrorEvent >>
            /\ run[r].closed
            /\ ~IsSome(run[r].syncRunId)
            /\ run[r].fetches = 0
            /\ ~octokit
            /\ lastRequestTime = 0
            /\ db = [ EmptyDb EXCEPT !.repos = << 1, 2 >> ]

\* a request for an untracked repository has been answered
C18_Witness ==
    \E r \in Slots :
        /\ Unresolved(r)
        /\ pending = 0
        /\ run[r].stream = << PlainErrorEvent >>

\* -----------------------------------------------------------------
\* C19  In every reachable state a SyncRun has a completion timestamp
\* iff its status is not `running`; every SyncRun whose status is
\* `partial` or `error` has a non-null error message, and every SyncRun
\* whose status is `complete` has none.
\* -----------------------------------------------------------------

\* C19: completed_at is set exactly on the rows that have left `running`,
\* error_message exactly on the rows that are `partial` or `error`
C19_RecordShape ==
    \A id \in 1..Len(db.sync_runs) :
        LET row == db.sync_runs[id]
        IN  /\ IsSome(row.completed_at) <=> row.status # "running"
            /\ row.status \in { "partial", "error" } => IsSome(row.error_message)
            /\ row.status = "complete" => ~IsSome(row.error_message)

\* a remote call failed with an empty message and the run's record is
\* `error` with no error message
C19_Witness ==
    \E r \in Slots :
        /\ run[r].pc = "done"
        /\ IsSome(run[r].caught)
        /\ Val(run[r].caught).name = "RequestError"
        /\ Val(run[r].caught).message = ""
        /\ RowOf(r).status = "error"
        /\ ~IsSome(RowOf(r).error_message)

\* -----------------------------------------------------------------
\* C20  The commits fetcher requests list pages 1, 2, 3, ... in
\* increasing order without gaps or repeats, stops after the first page
\* that is empty or holds fewer items than the page size, and returns
\* exactly one record per item of the requested pages, in page order; a
\* full sync with no failure therefore stores every item the remote
\* lists.
\* -----------------------------------------------------------------

\* how many items the fetcher has taken when it is at `page`, item `idx`
Taken(me) ==
    IF me.site = "c_page" THEN (me.page - 1) * PerPage
    ELSE (me.page - 1) * PerPage + me.idx

\* C20: in the commits fetcher of a first sync the collected records are
\* the first Taken items of the remote's list, one each and in order, so
\* every page before the current one was full and was requested once; the
\* page in hand is the remote's page of that number; and a run that ended
\* `complete` has stored every commit the remote lists for its targets
C20_Paging ==
    \A r \in Slots :
        /\ InFetchCommits(run[r]) =>
            LET all == remote[Repo([ me |-> run[r] ])].commits
                n == Taken(run[r])
            IN  /\ n <= Len(all)
                /\ Len(run[r].items) = n
                /\ \A k \in 1..n : run[r].items[k].sha = all[k].sha
                /\ ( run[r].site = "c_item" /\ run[r].pc # "done" ) =>
                    /\ run[r].data = PageOf(all, run[r].page, PerPage)
                    /\ run[r].idx < Len(run[r].data)
        /\ ( run[r].pc = "done" /\ IsSome(run[r].syncRunId)
             /\ RowOf(r).status = "complete" ) =>
            \A k \in 1..Len(run[r].reposToSync) :
                StoredShas(run[r].reposToSync[k]) =
                    RemoteShas(run[r].reposToSync[k])

\* a run over a repository with a full page and one more commit ended
\* `complete` with all of them stored
C20_Witness ==
    \E r \in Slots :
        /\ run[r].pc = "done"
        /\ IsSome(run[r].syncRunId)
        /\ RowOf(r).status = "complete"
        /\ Len(remote[1].commits) = PerPage + 1
        /\ Cardinality(StoredShas(1)) = PerPage + 1

\* -----------------------------------------------------------------
\* C21  During any commits or pull-request fetch, a list or detail
\* request is sent only while the remote's remaining budget is at least
\* the in-loop threshold of 5: the loop raises RateLimitError, carrying
\* the reset time and the remaining count, before the budget can fall
\* below that threshold, so a fetch never drives the remote budget to
\* zero.
\* -----------------------------------------------------------------

\* the handler awaits a list request / a detail request of a fetch loop
\* (with one handler the budget is what it was when the request was sent)
AwaitsList(me) == me.pc \in { "listCommits", "listPulls" }

AwaitsDetail(me) == me.pc \in { "getCommit", "getPull" }

\* a caught rate-limit error carries the reset time and the budget found
CarriesBudget(r) ==
    ( IsSome(run[r].caught) /\ Val(run[r].caught).name = "RateLimitError" ) =>
        /\ Val(run[r].caught).resetAt = Some(ResetAt)
        /\ Val(run[r].caught).remaining = Some(remaining)
        /\ remaining < LoopMin

\* C21 as stated: every list and detail request of the two fetch loops is
\* in flight with a budget of at least 5
C21_Original ==
    \A r \in Slots :
        /\ ( AwaitsList(run[r]) \/ AwaitsDetail(run[r]) ) => remaining >= LoopMin
        /\ CarriesBudget(r)

\* C21 as the code has it: the budget is checked before every list
\* request and before the detail request of every tenth item of a page,
\* and those requests are in flight with a budget of at least 5
C21_Amended ==
    \A r \in Slots :
        /\ AwaitsList(run[r]) => remaining >= LoopMin
        /\ ( AwaitsDetail(run[r]) /\ run[r].idx % CheckEvery = 0 ) =>
                remaining >= LoopMin
        /\ CarriesBudget(r)

\* the detail request of a page's second item is in flight with a budget
\* below 5
C21_Witness ==
    \E r \in Slots :
        /\ AwaitsDetail(run[r])
        /\ run[r].idx % CheckEvery # 0
        /\ remaining < LoopMin

\* -----------------------------------------------------------------
\* C22  Any two consecutive outbound requests released by throttle() are
\* at least 100 ms apart, for any number of callers sharing the single
\* last-request-time value, including callers of two overlapping sync
\* runs that are suspended inside throttle() at the same time.
\* -----------------------------------------------------------------

\* this step takes handler r out of throttle(): the handler moves (a
\* disconnect alone does not move it) and goes on to the request that
\* follows the call (the budget query or the request itself)
Released(r) ==
    /\ [ run'[r] EXCEPT !.cancelled = run[r].cancelled ] # run[r]
    /\ run[r].pc # "rateLimit"
    /\ run'[r].pc \in { "rateLimit", "getCommit", "getPull", "listReviews" }

\* C22: a release sets the last request time at least THROTTLE_MS after
\* the previous release
C22_Spacing ==
    [][ \A r \in Slots :
            Released(r) => lastRequestTime' - lastRequestTime >= THROTTLE_MS ]_vars

\* what throttle() does ensure: a caller is released at least THROTTLE_MS
\* after the last request time it read when it entered
C22_SinceEntry ==
    [][ \A r \in Slots :
            Released(r) =>
                IF run[r].pc = "throttle"
                THEN lastRequestTime' >= run[r].wakeAt
                ELSE lastRequestTime' - lastRequestTime >= THROTTLE_MS ]_vars

\* two handlers slept in throttle() until the same instant and both have
\* been released at it
C22_Witness ==
    /\ \A r \in Slots :
        /\ run[r].pc = "rateLimit"
        /\ run[r].wakeAt = lastRequestTime
    /\ clock = lastRequestTime

\* -----------------------------------------------------------------
\* C23  Given a remote pull-request list sorted by update time descending
\* and unchanged during the fetch, the pull-request fetcher called with
\* watermark W returns every pull request whose update time is at or
\* after W, each exactly once and in remote order: the older-item
\* short-circuit drops only pull requests older than W.
\* -----------------------------------------------------------------

\* the remote's pull requests updated at or after the watermark, in
\* remote order
AtOrAfter(repoId, since) ==
    SelectSeq(remote[repoId].pulls,
              LAMBDA pr : IsSome(since) => pr.updated_at >= Val(since))

Ids(seq) == [ k \in 1..Len(seq) |-> seq[k].id ]

IsPrefix(p, q) == Len(p) <= Len(q) /\ SubSeq(q, 1, Len(p)) = p

\* C23: while the fetcher runs, what it has collected is a prefix of the
\* remote's pull requests at or after the watermark; what it returned is
\* all of them, in remote order; and a run that ended `complete` stored
\* exactly those
C23_ReturnsAllAtOrAfter ==
    \A r \in Slots :
        /\ InFetchPulls(run[r]) =>
            IsPrefix(Ids(run[r].items),
                     Ids(AtOrAfter(Repo([ me |-> run[r] ]), run[r].since)))
        /\ ( InCycle(run[r]) /\ run[r].site = "r" ) =>
            Ids(run[r].items) =
                Ids(AtOrAfter(Repo([ me |-> run[r] ]), Some(Watermark)))
        /\ ( run[r].pc = "done" /\ IsSome(run[r].syncRunId)
             /\ RowOf(r).status = "complete" ) =>
            StoredPulls(1) =
                { pr.id : pr \in { remote[1].pulls[k] :
                                     k \in { j \in 1..Len(remote[1].pulls) :
                                               remote[1].pulls[j].updated_at >= Watermark } } }

\* a list with pull requests newer than, at and older than the watermark,
\* reaching onto a second page: the fetcher returned the first two
C23_Witness ==
    \E r \in Slots :
        /\ InCycle(run[r])
        /\ run[r].site = "r"
        /\ Len(remote[1].pulls) > PerPage
        /\ \E k \in 1..Len(remote[1].pulls) : remote[1].pulls[k].updated_at = Older
        /\ \E k \in 1..Len(run[r].items) : run[r].items[k].updated_at = Watermark
        /\ \E k \in 1..Len(run[r].items) : run[r].items[k].updated_at = Newer

\* -----------------------------------------------------------------
\* C24  A failed fetch of one resource type does not advance the other
\* type's watermark: if the pull-request fetch or a review fetch of a
\* repository's cycle fails, that repository's commit watermark is left
\* unchanged by the cycle, and if the commits fetch fails its
\* pull-request watermark is left unchanged.
\* -----------------------------------------------------------------

\* in this step a remote call of handler r's cycle fails at one of these
\* call sites and the handler ends
FailsAt(r, sites) ==
    /\ InCycle(run[r])
    /\ run'[r].pc = "done"
    /\ IsSome(run'[r].caught)
    /\ Val(run'[r].caught).name \in { "RequestError", "RateLimitError" }
    /\ run[r].site \in sites

\* the repository of handler r's cycle, and its stored watermarks
CycleRepo(r) == run[r].reposToSync[run[r].i + 1]

StoredPrSync(d, repoId) ==
    IF IsSome(getRepoSyncState(d, repoId))
    THEN Val(getRepoSyncState(d, repoId)).last_pr_sync ELSE None

StoredCommitSyncOf(d, repoId) ==
    IF IsSome(getRepoSyncState(d, repoId))
    THEN Val(getRepoSyncState(d, repoId)).last_commit_sync ELSE None

\* C24: the step in which the pull-request or a review fetch fails leaves
\* the commit watermark the cycle read when it started; the step in which
\* the commits fetch fails leaves the pull-request watermark it read
C24_OtherWatermarkKept ==
    [][ \A r \in Slots :
            /\ FailsAt(r, { "p_page", "p_item", "r" }) =>
                StoredCommitSyncOf(db', CycleRepo(r)) = commitSince(run[r].syncState)
            /\ FailsAt(r, { "c_page", "c_item" }) =>
                StoredPrSync(db', CycleRepo(r)) = prSince(run[r].syncState) ]_vars

\* a second cycle's pull-request fetch failed: the commit watermark is
\* still the first cycle's start time
C24_Witness ==
    \E r \in Slots :
        /\ FailedIn(r, { "p_page", "p_item" })
        /\ Len(db.sync_runs) = 2
        /\ db.sync_runs[1].status = "complete"
        /\ StoredCommitSyncOf(db, 1) = Some(db.sync_runs[1].started_at)

\* -----------------------------------------------------------------
\* C25  If a repository's pull-request fetch fails after its commits
\* fetch succeeded and its commits were persisted, the repository's
\* commit watermark is still advanced to the cycle start time, while its
\* pull-request watermark is not advanced.
\* -----------------------------------------------------------------

\* C25 as stated: the failing step leaves the commit watermark at the
\* cycle's start time and the pull-request watermark where it was
C25_Original ==
    [][ \A r \in Slots :
            FailsAt(r, { "p_page", "p_item" }) =>
                /\ StoredCommitSyncOf(db', CycleRepo(r)) = Some(run[r].syncStartTime)
                /\ StoredPrSync(db', CycleRepo(r)) = prSince(run[r].syncState) ]_vars

\* C25 as the code has it: the failing step advances neither watermark;
\* the repository's row is the one the cycle read when it started (none
\* on a first cycle), with the cycle's commits stored
C25_Amended ==
    [][ \A r \in Slots :
            FailsAt(r, { "p_page", "p_item" }) =>
                /\ getRepoSyncState(db', CycleRepo(r)) = run[r].syncState
                /\ run[r].repoResult.commits > 0 =>
                    \A k \in 1..Len(remote[CycleRepo(r)].commits) :
                        remote[CycleRepo(r)].commits[k].sha \in
                            StoredShas(CycleRepo(r))' ]_vars

\* a first cycle persisted its commit, its pull-request fetch failed, and
\* the repository has no watermark
C25_Witness ==
    \E r \in Slots :
        /\ FailedIn(r, { "p_page", "p_item" })
        /\ Len(db.sync_runs) = 1
        /\ StoredShas(1) # {}
        /\ ~IsSome(getRepoSyncState(db, 1))

\* -----------------------------------------------------------------
\* C26  The per-repository loop is entered, and a SyncRun record created,
\* only after a pre-flight rate-limit query has succeeded and reported at
\* least 50 remaining requests; if the pre-flight query itself fails
\* (credential or transport failure), no repository is touched and no
\* fetcher is invoked.
\* -----------------------------------------------------------------

\* this step creates handler r's SyncRun record
Creates(r) == IsSome(run'[r].syncRunId) /\ ~IsSome(run[r].syncRunId)

\* this step is the failure of handler r's pre-flight query in transit
PreflightFails(r) == run[r].pc = "preflight" /\ RemoteFails(r)

\* C26 as stated: the record is created only in the step in which the
\* pre-flight query answers 50 or more, and a failed pre-flight query
\* leaves the handler without record and without a fetcher call
C26_Original ==
    [][ \A r \in Slots :
            /\ Creates(r) => PreflightResp(r) /\ remaining >= PreflightMin
            /\ PreflightFails(r) =>
                ~IsSome(run'[r].syncRunId) /\ run'[r].fetches = 0 ]_vars

\* C26 as the code has it: the record is created in the step in which the
\* pre-flight query answers 50 or more or fails (in transit, or, without
\* a credential, before it is sent); an answer below 50 creates none; a
\* pre-flight query that fails is reported as progress and the run goes
\* on to create its record and call the commits fetcher
C26_Amended ==
    [][ \A r \in Slots :
            /\ Creates(r) =>
                \/ PreflightResp(r) /\ remaining >= PreflightMin
                \/ PreflightFails(r)
                \/ run[r].pc \in { "idle", "done" } /\ ~tokenOk
            /\ ( PreflightResp(r) /\ remaining < PreflightMin ) => ~Creates(r)
            /\ ( PreflightFails(r) /\ ~run[r].cancelled ) =>
                /\ Creates(r)
                /\ run'[r].fetches = 1
                /\ run'[r].stream[Len(run[r].stream) + 1] = ProgressEvent
                /\ run'[r].stream[Len(run[r].stream) + 2] =
                        StartEvent(Len(run[r].reposToSync)) ]_vars

\* the pre-flight query failed with a budget below 50: the run has its
\* record and has stored a commit
C26_Witness ==
    \E r \in Slots :
        /\ IsSome(run[r].syncRunId)
        /\ remaining <= LoopMin + 1
        /\ run[r].fetches >= 1
        /\ db.commits # {}

\* -----------------------------------------------------------------
\* C27  After a repository's cycle completes successfully with cycle
\* start time T, the store contains every remote commit and every remote
\* pull request of that repository that existed on the remote when the
\* cycle started; over any sequence of earlier runs on that repository,
\* including failed and partial ones, no item is permanently missed
\* because a watermark advanced past it.
\* -----------------------------------------------------------------

RemotePullIds(repoId) ==
    { remote[repoId].pulls[k].id : k \in 1..Len(remote[repoId].pulls) }

\* C27: the step that completes a repository's cycle leaves every commit
\* and every pull request the remote lists for it in the store (the
\* remote changes only between runs, so what it lists then is what it
\* listed when the cycle started)
C27_NothingMissed ==
    [][ \A r \in Slots :
            CycleCompletes(r) =>
                /\ RemoteShas(CycleRepo(r)) \subseteq
                    { c.sha : c \in { x \in db'.commits : x.repo_id = CycleRepo(r) } }
                /\ RemotePullIds(CycleRepo(r)) \subseteq
                    { p.id : p \in { x \in db'.pull_requests :
                                        x.repo_id = CycleRepo(r) } } ]_vars

\* two runs completed, the second after the push, and the pushed commit
\* is not stored
C27_Witness ==
    /\ Len(db.sync_runs) = 2
    /\ db.sync_runs[1].status = "complete"
    /\ db.sync_runs[2].status = "complete"
    /\ LatePush.sha \in RemoteShas(1)
    /\ LatePush.sha \notin StoredShas(1)

\* -----------------------------------------------------------------
\* C28  After removeRepo(r) no per-repository sync state (watermark row)
\* remains for r's identifier, so a repository later tracked under the
\* same identifier has no watermark and its first cycle is a
\* full-history fetch with no `since` bound.
\* -----------------------------------------------------------------

\* C28: a removal of repository id leaves no row of repo_sync_state for
\* id
C28_NoWatermarkLeft ==
    [][ \A id \in { 1, 2 } :
            Removes(id) => ~IsSome(getRepoSyncState(db', id)) ]_vars

\* a removal request for a repository was served and the watermark row
\* of that repository is still stored, with a commit watermark a later
\* cycle would pass as `since`
C28_Witness ==
    /\ IsSome(lastOp)
    /\ Val(lastOp).op = "removeRepo"
    /\ \E s \in db.repo_sync_state :
            /\ s.repo_id = Val(lastOp).payload
            /\ IsSome(s.last_commit_sync)

\* -----------------------------------------------------------------
\* C29  A sync cycle for repository B never changes, re-assigns or
\* removes a stored commit, pull request or review that belongs to a
\* different repository A: the rows owned by A are identical before and
\* after B's cycle, even when B's remote lists an item with the same
\* natural key as one of A's (for example the same commit SHA in a
\* fork).
\* -----------------------------------------------------------------

\* the commits, pull requests and reviews a repository owns
RowsOf(d, id) ==
    [ commits |-> { c \in d.commits : c.repo_id = id },
      pull_requests |-> PullsOf(d, id),
      reviews |-> ReviewsOf(d, id) ]

\* C29: every step a handler takes inside the cycle of a repository
\* leaves the rows of every other repository as they were
C29_OthersUntouched ==
    [][ \A r \in Slots :
            InCycle(run[r]) =>
                \A a \in { 1, 2 } \ { CycleRepo(r) } :
                    RowsOf(db', a) = RowsOf(db, a) ]_vars

\* the run completed both cycles, and the commit the parent's remote
\* lists is stored as the fork's, the parent owning no commit
C29_Witness ==
    \E r \in Slots :
        /\ run[r].pc = "done"
        /\ run[r].completedRepos = 2
        /\ RemoteShas(1) \subseteq RemoteShas(2)
        /\ RemoteShas(1) \subseteq StoredShas(2)
        /\ StoredShas(1) = {}

\* -----------------------------------------------------------------
\* C30  Every run that created a SyncRun record eventually leaves
\* `running`: assuming every remote call eventually returns or fails and
\* the remote lists are finite, each fetch loop terminates and the
\* record is finalized to complete, partial or error; no execution
\* leaves a record in `running` forever.
\* -----------------------------------------------------------------

\* some record of sync_runs has the status `running`
RecordRunning ==
    \E k \in 1..Len(db.sync_runs) : db.sync_runs[k].status = "running"

\* handler r created its record and the record is finalized
RecordFinal(r) ==
    /\ IsSome(run[r].syncRunId)
    /\ db.sync_runs[Val(run[r].syncRunId)].status \in
            { "complete", "partial", "error" }

\* C30: whenever a record is `running`, later none is: the handler that
\* created it finalizes it
C30_LeavesRunning == RecordRunning ~> ~RecordRunning

\* a run over two repositories fetched pages and items through both
\* loops and its record is finalized
C30_Witness ==
    \E r \in Slots :
        /\ run[r].pc = "done"
        /\ RecordFinal(r)
        /\ run[r].fetches >= 3

====
